---- MODULE Spec2Model ----
(***************************************************************************)
(* A model of the menu widget of crawl-ref/source/menu.cc (the local tiles *)
(* build: USE_TILE_LOCAL defined, USE_TILE_WEB and TOUCH_UI not defined).  *)
(*                                                                         *)
(* Indices are the code's: entries, rows and the row-height table are      *)
(* counted from 0; At(s, i) reads the i-th element of a vector.            *)
(***************************************************************************)
EXTENDS Integers, Sequences, FiniteSets, TLC

VARIABLES
    items,                \* Menu::items, a vector of MenuEntry
    flags,                \* Menu::flags, the set of MF_ flags that are set
    sel,                  \* Menu::sel, the selection list (entry indices)
    num,                  \* Menu::num, the quantity accumulator
    lastch,               \* Menu::lastch
    last_hovered,         \* Menu::last_hovered
    menu_action,          \* Menu::menu_action
    action_cycle,         \* Menu::action_cycle
    on_single_selection,  \* Menu::on_single_selection: "none" or what it returns
    has_select_filter,    \* Menu::select_filter is not empty
    item_info,            \* UIMenu::item_info: x, y, row, column of each entry
    row_heights,          \* UIMenu::row_heights
    m_height,             \* UIMenu::m_height
    m_nat_column_width,   \* UIMenu::m_nat_column_width
    m_scroll_context,     \* UIMenu::m_scroll_context
    m_num_columns,        \* UIMenu::m_num_columns
    m_min_col_width,      \* UIMenu::m_min_col_width
    m_force_scroll,       \* UIMenu::m_force_scroll
    m_initial_hover_snap, \* UIMenu::m_initial_hover_snap
    m_hover_idx,          \* UIMenu::m_hover_idx
    m_scroll,             \* Scroller::m_scroll
    vph,                  \* the scroller's region height (the viewport height)
    menu_w,               \* the menu widget's region width
    max_height,           \* the height the popup can give to the scroller
    max_size_height,      \* the scroller's max_size().height
    seen_hups,            \* crawl_state.seen_hups
    m_mouse_x,            \* UIMenu::m_mouse_x less the viewport's left edge
    m_mouse_y,            \* UIMenu::m_mouse_y less the viewport's top edge
    m_mouse_pressed,      \* UIMenu::m_mouse_pressed
    int_overflow,         \* what this build makes of a signed overflow
    pc,                   \* where the program is: "layout", "event", "done", "call"
    op,                   \* the last operation performed, with its arguments and result
    pre                   \* the state the last operation started from

menuVars == <<items, flags, sel, num, lastch, last_hovered, menu_action,
              action_cycle, on_single_selection, has_select_filter>>
uiVars == <<item_info, row_heights, m_height, m_nat_column_width,
            m_scroll_context, m_num_columns, m_min_col_width, m_force_scroll,
            m_initial_hover_snap, m_hover_idx>>
frameVars == <<m_scroll, vph, menu_w, max_height, max_size_height, seen_hups>>
mouseVars == <<m_mouse_x, m_mouse_y, m_mouse_pressed>>
vars == <<menuVars, uiVars, frameVars, mouseVars, int_overflow, pc, op, pre>>

(***************************************************************************)
(* Program constants.                                                      *)
(***************************************************************************)
item_pad == 2
pad_right == 10
HotkeyCap == 52
DefaultMinColumnWidth == 400
TileIndent == 38
TileHeight == 32
HeadingPadFirst == 5
HeadingPad == 10
PrefixChars == 5
MaxWrapLines == 2
MaxNum == 999
INT_MAX == 2147483647

\* The font of the entries (FontWrapper, outside menu.cc): a fixed-pitch font.
char_height == 16
char_width == 8
\* ui.h
UI_SCROLLER_SHADE_SIZE == 12

Max(a, b) == IF a >= b THEN a ELSE b
Min(a, b) == IF a <= b THEN a ELSE b
At(s, i) == s[i + 1]
Size(s) == Len(s)
Indices(s) == 0 .. (Len(s) - 1)

\* Key codes (cio.h). Printable keys are their character codes.
CK ==
    [ENTER |-> 13, ESCAPE |-> 27, REDRAW |-> -100, MOUSE_B1 |-> -101,
     MOUSE_CLICK |-> -102, UP |-> -103, DOWN |-> -104, PGUP |-> -105,
     PGDN |-> -106, HOME |-> -107, END |-> -108, LINE_UP |-> -109,
     LINE_DOWN |-> -110, SEARCH |-> 6, CYCLE_MODE |-> 33,
     CYCLE_MODE_REVERSE |-> 64, CYCLE_HEADERS |-> 9, HELP |-> 63]
Ch ==
    [space |-> 32, star |-> 42, comma |-> 44, minus |-> 45, dot |-> 46,
     zero |-> 48, nine |-> 57, a |-> 97, z |-> 122, A |-> 65, Z |-> 90]

isadigit(k) == k >= Ch.zero /\ k <= Ch.nine
isaletter(k) == (k >= Ch.a /\ k <= Ch.z) \/ (k >= Ch.A /\ k <= Ch.Z)

(***************************************************************************)
(* MenuEntry                                                               *)
(***************************************************************************)
Levels == {"MEL_NONE", "MEL_TITLE", "MEL_SUBTITLE", "MEL_ITEM"}
Callbacks == {"none", "handled", "unhandled"}

\* MenuEntry: on_select is "none" when the entry carries no action, and else
\* what the action returns; text_len is the length of the entry's own text,
\* tiles whether get_tiles gives any tile, matches whether a select filter
\* pattern matches the entry's filter text.
MenuEntry(level, quantity, hotkeys, on_select, text_len, tiles, matches) ==
    [level |-> level, quantity |-> quantity, selected_qty |-> 0,
     hotkeys |-> hotkeys, on_select |-> on_select, text_len |-> text_len,
     tiles |-> tiles, matches |-> matches]

selected(me) ==
    me.selected_qty > 0 /\ (me.quantity # 0 \/ me.on_select # "none")

\* A select whose last rule also writes the quantity asked for into an
\* entry of quantity 0.
select_any_quantity(me, qty) ==
    IF me.on_select # "none" /\ me.quantity = 0
    THEN [me EXCEPT !.selected_qty = 1]
    ELSE IF qty = -2
    THEN [me EXCEPT !.selected_qty = me.quantity]
    ELSE IF selected(me)
    THEN [me EXCEPT !.selected_qty = 0]
    ELSE [me EXCEPT !.selected_qty = IF qty = -1 THEN me.quantity ELSE qty]

\* MenuEntry::select
select(me, qty) ==
    IF me.on_select # "none" /\ me.quantity = 0
    THEN [me EXCEPT !.selected_qty = 1]
    ELSE IF qty = -2
    THEN [me EXCEPT !.selected_qty = me.quantity]
    ELSE IF selected(me)
    THEN [me EXCEPT !.selected_qty = 0]
    ELSE IF me.quantity # 0
    THEN [me EXCEPT !.selected_qty = IF qty = -1 THEN me.quantity ELSE qty]
    ELSE me

hotkeys_count(me) == Len(me.hotkeys)
is_hotkey_of(me, key) == \E j \in 1 .. Len(me.hotkeys) : me.hotkeys[j] = key

\* MenuEntry::_get_text_preface: " x - " before an item with a hotkey (the
\* name of a letter key is the letter, so the preface has PrefixChars
\* characters); indent_no_hotkeys is not set.
text_preface_len(me) ==
    IF me.level = "MEL_ITEM" /\ hotkeys_count(me) > 0 THEN PrefixChars ELSE 0

\* _has_hotkey_prefix on get_text(): the preface of an item whose primary
\* hotkey is a letter.
has_hotkey_prefix(me) ==
    me.level = "MEL_ITEM" /\ hotkeys_count(me) > 0 /\ isaletter(me.hotkeys[1])

string_width(len) == len * char_width
get_text_width(me) == string_width(text_preface_len(me) + me.text_len)

\* FontWrapper::split followed by string_height: the text wrapped to lines of
\* width w.
CeilDiv(a, b) == (a + b - 1) \div b
split_height(width, w) ==
    char_height * Max(1, CeilDiv(width, Max(w, char_width)))

(***************************************************************************)
(* UIMenu: layout                                                          *)
(***************************************************************************)
is_heading(me) == me.level = "MEL_TITLE" \/ me.level = "MEL_SUBTITLE"

\* UIMenu::update_items: m_draw_tiles (Options.tile_menu_icons is on).
draw_tiles(its) ==
    \E i \in Indices(its) : ~is_heading(At(its, i)) /\ At(its, i).tiles

MenuItemInfo(x, y, row, column) == [x |-> x, y |-> y, row |-> row, column |-> column]

\* The state of do_layout's loop before entry i.
LayoutStart(scroll_context) ==
    [column |-> -1, column_width |-> 0, row_height |-> 0, height |-> 0,
     row_heights |-> <<>>, scroll_context |-> scroll_context, info |-> <<>>]

padded(row_height) == row_height + (IF row_height = 0 THEN 0 ELSE 2 * item_pad)

next_column(heading, column, num_columns) ==
    IF heading THEN 0 ELSE (column + 1) % num_columns

heading_row_height(i, text_width, mw, tiles_drawn) ==
    LET h == char_height + (IF i = 0 THEN HeadingPadFirst ELSE HeadingPad)
    IN  IF tiles_drawn /\ text_width > mw
        THEN Max(h, split_height(text_width, mw))
        ELSE h

\* A heading that leaves the column counter where it found it, so that the
\* next entry may share the heading's row.
layout_heading_keeps_column(st, i, me, mw, num_columns, tiles_drawn) ==
    [st EXCEPT
        !.info = Append(@, MenuItemInfo(0, st.height, Len(st.row_heights) - 1, 0)),
        !.row_height = heading_row_height(i, get_text_width(me), mw, tiles_drawn),
        !.column = 0]

\* The body of do_layout's loop for a heading, after the row has been started.
layout_heading(st, i, me, mw, num_columns, tiles_drawn) ==
    [st EXCEPT
        !.info = Append(@, MenuItemInfo(0, st.height, Len(st.row_heights) - 1, 0)),
        !.row_height = heading_row_height(i, get_text_width(me), mw, tiles_drawn),
        !.column = num_columns - 1]

\* The body of do_layout's loop for an entry that is no heading.
layout_item(st, me, column, max_column_width, tiles_drawn, no_wrap) ==
    LET text_indent == IF tiles_drawn THEN TileIndent ELSE 0
        text_width == get_text_width(me)
        item_height == Max(char_height, IF me.tiles THEN TileHeight ELSE 0)
        wraps == ~no_wrap /\ text_width > max_column_width - text_indent - pad_right
        prefixed == wraps /\ has_hotkey_prefix(me)
        text_sx == text_indent + (IF prefixed THEN string_width(PrefixChars) ELSE 0)
        wrapped == IF prefixed THEN text_width - string_width(PrefixChars)
                   ELSE text_width
        w == max_column_width - text_sx - pad_right
        string_height == Min(split_height(wrapped, w), char_height * MaxWrapLines)
        height == IF wraps THEN Max(item_height, string_height) ELSE item_height
    IN  [st EXCEPT
            !.info = Append(@, MenuItemInfo(text_indent, st.height,
                                            Len(st.row_heights) - 1, column)),
            !.column = column,
            !.column_width = Max(@, text_sx + text_width + pad_right),
            !.row_height = Max(@, height)]

\* A push of the row that forgets the padding in the boundary it records.
push_row_unpadded(st) ==
    LET row_height == padded(st.row_height)
    IN  [st EXCEPT
            !.scroll_context = Max(@, row_height),
            !.height = @ + row_height,
            !.row_heights = Append(@, st.height + st.row_height),
            !.row_height = 0]

\* do_layout pushes the row that ends: at an entry of column 0 and after the loop.
push_row(st) ==
    LET row_height == padded(st.row_height)
    IN  [st EXCEPT
            !.scroll_context = Max(@, row_height),
            !.height = @ + row_height,
            !.row_heights = Append(@, st.height + row_height),
            !.row_height = 0]

layout_entry(st, i, me, mw, num_columns, tiles_drawn, no_wrap) ==
    LET column == next_column(is_heading(me), st.column, num_columns)
        st1 == IF column = 0 THEN push_row(st) ELSE st
    IN  IF is_heading(me)
        THEN layout_heading(st1, i, me, mw, num_columns, tiles_drawn)
        ELSE layout_item(st1, me, column, mw \div num_columns, tiles_drawn, no_wrap)

RECURSIVE layout_range(_, _, _, _, _, _, _, _)
\* do_layout's loop over the entries lo .. hi - 1, from the loop state st.
layout_range(st, lo, hi, its, mw, num_columns, tiles_drawn, no_wrap) ==
    IF hi <= lo
    THEN st
    ELSE IF hi = lo + 1
    THEN layout_entry(st, lo, At(its, lo), mw, num_columns, tiles_drawn, no_wrap)
    ELSE LET mid == (lo + hi) \div 2
             half == layout_range(st, lo, mid, its, mw, num_columns,
                                  tiles_drawn, no_wrap)
         IN  \* the test makes TLC evaluate the first half before the second
             IF half.height >= 0
             THEN layout_range(half, mid, hi, its, mw, num_columns,
                               tiles_drawn, no_wrap)
             ELSE half

layout_loop(st, its, mw, num_columns, tiles_drawn, no_wrap) ==
    layout_range(st, 0, Size(its), its, mw, num_columns, tiles_drawn, no_wrap)

\* A natural width that gives way to the available width.
nat_column_width_capped(column_width, min_column_width, max_column_width) ==
    Min(max_column_width, Max(min_column_width, column_width))

nat_column_width(column_width, min_column_width, max_column_width) ==
    Max(min_column_width, Min(column_width, max_column_width))

\* UIMenu::do_layout(mw, num_columns): what it leaves in item_info,
\* row_heights, m_height, m_nat_column_width and m_scroll_context.
do_layout(its, mw, num_columns, min_col_width, scroll_context, no_wrap) ==
    LET min_column_width ==
            IF min_col_width > 0 THEN min_col_width ELSE DefaultMinColumnWidth
        max_column_width == mw \div num_columns
        st == push_row(layout_loop(LayoutStart(scroll_context), its, mw,
                                   num_columns, draw_tiles(its), no_wrap))
    IN  [item_info |-> st.info,
         row_heights |-> st.row_heights,
         m_height |-> st.height,
         m_nat_column_width |->
             nat_column_width(st.column_width + 2 * item_pad,
                              min_column_width, max_column_width),
         m_scroll_context |-> st.scroll_context]


(***************************************************************************)
(* UIMenu: the visible range, an entry's region, the page height cap       *)
(***************************************************************************)
row_top(info, rh, i) == At(rh, At(info, i).row)
row_bottom(info, rh, i) == At(rh, At(info, i).row + 1)

\* The least element of a set of numbers, or `none` when it is empty.
Least(S, none) ==
    IF S = {} THEN none ELSE CHOOSE x \in S : \A y \in S : x <= y

\* The first loop of is_visible_item_range: the first index from i on whose
\* row ends below y, or the number of entries when there is none.
first_reaching_below(i, info, rh, y) ==
    Least({j \in i .. (Size(info) - 1) : row_bottom(info, rh, j) > y}, Size(info))

\* The second loop of is_visible_item_range: the first index from i on whose
\* row starts at y or below it, or the number of entries when there is none.
first_starting_at(i, info, rh, y) ==
    Least({j \in i .. (Size(info) - 1) : row_top(info, rh, j) >= y}, Size(info))

\* UIMenu::is_visible_item_range with the scroller at `scroll` and a viewport
\* of height `viewport_height`; n_items is m_menu->items.size().
is_visible_item_range(info, rh, scroll, viewport_height, n_items) ==
    LET i1 == first_reaching_below(0, info, rh, scroll)
        v_min == IF i1 < Size(info) THEN i1 ELSE 0
        v_max == first_starting_at(i1, info, rh, scroll + viewport_height)
    IN  [vis_min |-> v_min, vis_max |-> Min(v_max, n_items)]

\* UIMenu::get_item_region: -1 and -1 before the first layout.
get_item_region(info, rh, index) ==
    LET row == At(info, index).row
    IN  IF row + 1 >= Size(rh)
        THEN [y1 |-> -1, y2 |-> -1]
        ELSE [y1 |-> At(rh, row), y2 |-> At(rh, row + 1)]

item_count(its, i) == IF is_heading(At(its, i)) THEN 0 ELSE 1

\* The do-while of get_max_viewport_height: drops the entries from a up to
\* the next entry of column 0. It reads item_info past its end
\* ("out_of_bounds") when no such entry follows.
drop_row(a, num_items, its, info) ==
    LET next == Least({j \in (a + 1) .. (Size(info) - 1) : At(info, j).column = 0},
                      Size(info))
        dropped == Cardinality({j \in a .. (next - 1) : ~is_heading(At(its, j))})
    IN  [a |-> next, num_items |-> num_items - dropped,
         out_of_bounds |-> next >= Size(info)]

page_delta(a, b, info, rh) ==
    LET item_h == row_top(info, rh, b) - row_top(info, rh, b - 1)
    IN  item_h + At(info, b - 1).y - At(info, a).y

\* One turn of the while loop of get_max_viewport_height. num_items is a
\* size_t: below 0 it has wrapped around, and with num_items above the cap
\* the loop changes nothing any more ("hangs").
max_viewport_step(st, its, info, rh) ==
    IF st.status # "running"
    THEN st
    ELSE IF st.b >= Size(info)
    THEN [st EXCEPT !.status = "returned"]
    ELSE IF st.num_items >= 0 /\ st.num_items < HotkeyCap
    THEN [st EXCEPT !.b = @ + 1, !.num_items = @ + item_count(its, st.b)]
    ELSE IF st.num_items = HotkeyCap
    THEN LET d == drop_row(st.a, st.num_items, its, info)
         IN  [st EXCEPT
                 !.height = Min(@, page_delta(st.a, st.b, info, rh)),
                 !.a = d.a,
                 !.num_items = d.num_items,
                 !.status = IF d.out_of_bounds THEN "out_of_bounds" ELSE @]
    ELSE [st EXCEPT !.status = "hangs"]

RECURSIVE max_viewport_turns(_, _, _, _, _)
\* k turns of the loop.
max_viewport_turns(st, k, its, info, rh) ==
    IF k <= 0
    THEN st
    ELSE IF k = 1
    THEN max_viewport_step(st, its, info, rh)
    ELSE LET half == max_viewport_turns(st, k \div 2, its, info, rh)
         IN  \* the test makes TLC evaluate the first half before the second
             IF half.status # "running"
             THEN half
             ELSE max_viewport_turns(half, k - (k \div 2), its, info, rh)

\* The while loop of get_max_viewport_height, which ends within two turns for
\* each entry (b or a moves on in every turn) and one more.
max_viewport_loop(its, info, rh) ==
    max_viewport_turns([a |-> 0, b |-> 0, num_items |-> 0, height |-> INT_MAX,
                        status |-> "running"],
                       2 * Size(info) + 2, its, info, rh)

\* UIMenu::get_max_viewport_height
get_max_viewport_height(its, info, rh) == max_viewport_loop(its, info, rh).height

(***************************************************************************)
(* The menu as the host has built it, before it is shown                   *)
(***************************************************************************)
Snapshot(its, scroll, hover, selection, n) ==
    [items |-> its, m_scroll |-> scroll, last_hovered |-> hover,
     sel |-> selection, num |-> n]

\* Menu::Menu and UIMenu::UIMenu, then add_entry for each entry of its and
\* set_flags(fl); w and mh are the width and the height the screen has for
\* the menu.
Constructed(its, fl, single_selection, filter, cycle, w, mh) ==
    /\ items = its
    /\ flags = fl
    /\ sel = <<>>
    /\ num = -1
    /\ lastch = 0
    /\ last_hovered = -1
    /\ menu_action = "ACT_EXAMINE"
    /\ action_cycle = cycle
    /\ on_single_selection = single_selection
    /\ has_select_filter = filter
    /\ item_info = <<>>
    /\ row_heights = <<>>
    /\ m_height = 0
    /\ m_nat_column_width = 0
    /\ m_scroll_context = 0
    /\ m_num_columns = 1
    /\ m_min_col_width = -1
    /\ m_force_scroll = -1
    /\ m_initial_hover_snap = FALSE
    /\ m_mouse_x = -1
    /\ m_mouse_y = -1
    /\ m_mouse_pressed = FALSE
    /\ m_hover_idx = -1
    /\ m_scroll = 0
    /\ vph = 0
    /\ menu_w = w
    /\ max_height = mh
    /\ max_size_height = INT_MAX
    /\ seen_hups = FALSE
    /\ op = [name |-> "constructed"]
    /\ pre = Snapshot(<<>>, 0, -1, <<>>, -1)

(***************************************************************************)
(* Menu: scrolling and hovering.  The handlers work on a record m of the   *)
(* fields they change; ret is what the last call returned and fault tells  *)
(* whether an ASSERT failed or a vector was read outside its bounds.       *)
(***************************************************************************)
MenuState ==
    [items |-> items, sel |-> sel, num |-> num, lastch |-> lastch,
     last_hovered |-> last_hovered, menu_action |-> menu_action,
     m_scroll |-> m_scroll, m_hover_idx |-> m_hover_idx,
     m_force_scroll |-> m_force_scroll, shown_items |-> Size(item_info),
     seen_hups |-> seen_hups, ret |-> TRUE, fault |-> "none"]

Returning(m, value) == [m EXCEPT !.ret = value]
Failing(m, kind) == [m EXCEPT !.fault = kind, !.ret = FALSE]
in_range(m, index) == index >= 0 /\ index < Size(m.items)

is_set(flag) == flag \in flags

\* a + b does not fit an int (b is a height, never negative).
overflows(a, b) == b > 0 /\ a > INT_MAX - b
wrapped_sum(a, b) == (a - INT_MAX - 1) + (b - INT_MAX - 1)

\* y >= a + b and y <= a + b as the build computes them: a sum that does not
\* fit wraps around, or the comparison is made as if it had fitted.
reaches(y, a, b) ==
    IF ~overflows(a, b) THEN y >= a + b
    ELSE IF int_overflow = "wraps" THEN y >= wrapped_sum(a, b) ELSE FALSE
within(y, a, b) ==
    IF ~overflows(a, b) THEN y <= a + b
    ELSE IF int_overflow = "wraps" THEN y <= wrapped_sum(a, b) ELSE TRUE

item_region(index) == get_item_region(item_info, row_heights, index)

\* Scroller::set_scroll (ui.cc): the offset is taken as given; the scroller's
\* next allocation brings it back between 0 and the scrollable height.
scroller_set_scroll(m, y) == [m EXCEPT !.m_scroll = y]

\* Menu::get_first_visible
get_first_visible(m, skip_init_headers) ==
    Least({i \in Indices(m.items) :
              /\ item_region(i).y1 >= m.m_scroll
              /\ ~(skip_init_headers /\ is_heading(At(m.items, i)))},
          Size(m.items))

\* Menu::in_page, for an index get_item_region accepts.
in_page(m, index, strict) ==
    LET r == item_region(index)
        vpy == m.m_scroll
        upper_in == vpy <= r.y1 /\ within(r.y1, vpy, vph)
        lower_in == vpy <= r.y2 /\ within(r.y2, vpy, vph)
    IN  IF strict THEN lower_in /\ upper_in ELSE lower_in \/ upper_in

\* Menu::get_header_block: first and second of the pair.
header_block_first(its, index) ==
    Least({f \in 0 .. index :
              \A j \in f .. (index - 1) : At(its, j).level # "MEL_ITEM"}, index)
header_block_last(its, index) ==
    Least({l \in index .. (Size(its) - 1) :
              l + 1 >= Size(its) \/ At(its, l).level = "MEL_ITEM"}, index)

\* The y1 that set_scroll, item_visible and snap_in_page work with: the top
\* of the headers right before the entry, if there are any.
block_top(m, index) ==
    LET first == header_block_first(m.items, index)
    IN  item_region(first).y1

\* set_scroll that brings an index outside the entries to the nearest entry.
set_scroll_clamped(m, index) ==
    IF vph = 0
    THEN Returning([m EXCEPT !.m_force_scroll = index], FALSE)
    ELSE IF m.items = <<>>
    THEN Returning(m, FALSE)
    ELSE LET y1 == block_top(m, Max(0, Min(index, Size(m.items) - 1)))
         IN  Returning(scroller_set_scroll(m, y1 - UI_SCROLLER_SHADE_SIZE \div 2),
                       m.m_scroll # y1)

\* Menu::set_scroll
set_scroll(m, index) ==
    IF vph = 0
    THEN Returning([m EXCEPT !.m_force_scroll = index], FALSE)
    ELSE IF ~in_range(m, index)
    THEN Returning(m, FALSE)
    ELSE LET y1 == block_top(m, index)
         IN  Returning(scroller_set_scroll(m, y1 - UI_SCROLLER_SHADE_SIZE \div 2),
                       m.m_scroll # y1)

\* Menu::item_visible
item_visible(m, index) ==
    /\ vph # 0
    /\ in_range(m, index)
    /\ block_top(m, index) >= m.m_scroll
    /\ ~reaches(item_region(index).y2, m.m_scroll, vph)

\* snap_in_page that scrolls by the least amount, without the shade's margin.
snap_in_page_flush(m, index) ==
    IF vph = 0 \/ ~in_range(m, index)
    THEN Returning(m, FALSE)
    ELSE LET y1 == block_top(m, index)
             y2 == item_region(index).y2
             vpy == m.m_scroll
         IN  IF reaches(y2, vpy, vph)
             THEN Returning(scroller_set_scroll(m, y2 - vph), TRUE)
             ELSE IF y1 < vpy
             THEN Returning(scroller_set_scroll(m, y1), TRUE)
             ELSE Returning(m, FALSE)

\* Menu::snap_in_page
snap_in_page(m, index) ==
    IF vph = 0 \/ ~in_range(m, index)
    THEN Returning(m, FALSE)
    ELSE LET y1 == block_top(m, index)
             y2 == item_region(index).y2
             vpy == m.m_scroll
         IN  IF reaches(y2, vpy, vph)
             THEN Returning(scroller_set_scroll(m,
                      y2 - vph + UI_SCROLLER_SHADE_SIZE \div 2), TRUE)
             ELSE IF y1 < vpy
             THEN Returning(scroller_set_scroll(m,
                      y1 - UI_SCROLLER_SHADE_SIZE \div 2), TRUE)
             ELSE Returning(m, FALSE)

\* Menu::set_hovered
set_hovered(m, index, force) ==
    IF ~force /\ ~is_set("MF_ARROWS_SELECT")
    THEN snap_in_page(m, index)
    ELSE LET hovered == Min(index, Size(m.items) - 1)
             m1 == [m EXCEPT !.last_hovered = hovered]
         IN  IF m.shown_items = 0
             THEN m1
             ELSE LET m2 == [m1 EXCEPT !.m_hover_idx = hovered]
                  IN  IF hovered >= 0 THEN snap_in_page(m2, hovered) ELSE m2

RECURSIVE hover_scan(_, _, _, _, _)
\* The while loop of cycle_hover from new_hover with items_tried entries
\* tried: the entry it stops at and whether that entry is an item.
hover_scan(its, new_hover, items_tried, max_items, reverse) ==
    IF items_tried >= max_items
    THEN [found |-> FALSE, new_hover |-> new_hover, fault |-> "none"]
    ELSE LET sz == Size(its)
             stepped == new_hover + (IF reverse THEN -1 ELSE 1)
             wrapped == IF is_set("MF_WRAP") /\ sz > 0
                        THEN (stepped + sz) % sz
                        ELSE stepped
             clamped == Max(0, Min(wrapped, sz - 1))
         IN  IF clamped >= sz
             THEN [found |-> FALSE, new_hover |-> clamped, fault |-> "out_of_bounds"]
             ELSE IF At(its, clamped).level = "MEL_ITEM"
             THEN [found |-> TRUE, new_hover |-> clamped, fault |-> "none"]
             ELSE hover_scan(its, clamped, items_tried + 1, max_items, reverse)

\* cycle_hover's max_items
hover_budget(m, reverse) ==
    IF is_set("MF_WRAP") THEN Size(m.items)
    ELSE IF reverse THEN m.last_hovered
    ELSE Size(m.items) - Max(m.last_hovered, 0)

\* A cycle_hover that steps to the neighbouring entry whatever its level.
cycle_hover_one_step(m, reverse) ==
    IF ~is_set("MF_ARROWS_SELECT") \/ Size(m.items) = 0
    THEN m
    ELSE set_hovered(m, Max(0, Min(m.last_hovered + (IF reverse THEN -1 ELSE 1),
                                   Size(m.items) - 1)), FALSE)

\* A cycle_hover that goes round the ends of the list whatever MF_WRAP says.
cycle_hover_wrapping(m, reverse) ==
    LET sz == Size(m.items)
        cand == {i \in Indices(m.items) : At(m.items, i).level = "MEL_ITEM"}
        gap(i) == IF reverse THEN (m.last_hovered - i + 2 * sz - 1) % sz
                  ELSE (i - m.last_hovered + 2 * sz - 1) % sz
    IN  IF ~is_set("MF_ARROWS_SELECT") \/ cand = {}
        THEN m
        ELSE set_hovered(m, CHOOSE i \in cand : \A j \in cand : gap(i) <= gap(j),
                         FALSE)

\* Menu::cycle_hover
cycle_hover(m, reverse) ==
    IF ~is_set("MF_ARROWS_SELECT")
    THEN m
    ELSE LET start == IF reverse /\ m.last_hovered < 0 THEN 0 ELSE m.last_hovered
             scan == hover_scan(m.items, start, 0, hover_budget(m, reverse), reverse)
         IN  IF scan.fault # "none" THEN Failing(m, scan.fault)
             ELSE IF ~scan.found THEN m
             ELSE set_hovered(m, scan.new_hover, FALSE)

\* The end of page_down and page_up: with the hover moved, a hover that is
\* on no item is cycled on.
hover_onto_item(m, reverse) ==
    IF ~in_range(m, m.last_hovered)
    THEN Failing(m, "out_of_bounds")
    ELSE IF At(m.items, m.last_hovered).level # "MEL_ITEM"
    THEN cycle_hover(m, reverse)
    ELSE m

\* A scroll context of the tallest row alone.
scroll_context_of_one_row == m_scroll_context

\* UIMenu::get_scroll_context
get_scroll_context == m_scroll_context + m_scroll_context \div 2

\* The start of page_down and page_up: the hover's place in the page, or -1.
page_hover_start(m) ==
    IF is_set("MF_ARROWS_SELECT") /\ m.last_hovered < 0
    THEN [m EXCEPT !.last_hovered = 0]
    ELSE m
page_new_hover(m) ==
    IF m.last_hovered >= 0 /\ in_page(m, m.last_hovered, FALSE)
    THEN m.last_hovered - get_first_visible(m, TRUE)
    ELSE -1

\* Menu::page_down
page_down(m) ==
    LET m0 == page_hover_start(m)
    IN  IF (m0.last_hovered >= 0 /\ ~in_range(m0, m0.last_hovered))
           \/ Size(m0.items) = 0
        THEN Failing(m0, "assert")
        ELSE
        LET new_hover == page_new_hover(m0)
            dy == vph - get_scroll_context
            y == m0.m_scroll
            at_bottom == y + dy >= m_height
            m1 == IF ~in_page(m0, Size(m0.items) - 1, TRUE)
                  THEN scroller_set_scroll(m0, y + dy)
                  ELSE m0
            first == get_first_visible(m1, TRUE)
            m2 == IF new_hover < 0 THEN m1
                  ELSE hover_onto_item(
                           IF is_set("MF_ARROWS_SELECT")
                              /\ first + new_hover = m1.last_hovered
                           THEN set_hovered(m1, Size(m1.items) - 1, FALSE)
                           ELSE set_hovered(m1, first + new_hover, FALSE),
                           TRUE)
        IN  Returning(m2, ~at_bottom)

\* Menu::page_up
page_up(m) ==
    LET m0 == page_hover_start(m)
    IN  IF m0.last_hovered >= 0 /\ ~in_range(m0, m0.last_hovered)
        THEN Failing(m0, "assert")
        ELSE
        LET new_hover == page_new_hover(m0)
            dy == vph - get_scroll_context
            y == m0.m_scroll
            m1 == scroller_set_scroll(m0, y - dy)
            first == get_first_visible(m1, TRUE)
            target == IF is_set("MF_ARROWS_SELECT")
                         /\ first + new_hover = m1.last_hovered
                      THEN first
                      ELSE first + new_hover
            m2 == IF new_hover < 0 THEN m1
                  ELSE hover_onto_item(set_hovered(m1, target, FALSE), FALSE)
        IN  Returning(m2, y > 0)

\* Menu::line_down
line_down(m) ==
    LET index == get_first_visible(m, FALSE)
    IN  IF ~in_range(m, index)
        THEN Failing(m, "assert")
        ELSE LET first_vis_y == item_region(index).y1
                 next == Least({j \in (index + 1) .. (Size(m.items) - 1) :
                                   item_region(j).y1 # first_vis_y}, -1)
             IN  IF next >= 0
                 THEN Returning(scroller_set_scroll(m, item_region(next).y1), TRUE)
                 ELSE Returning(m, FALSE)

\* Menu::line_up
line_up(m) ==
    LET index == get_first_visible(m, FALSE)
    IN  IF index > 0
        THEN Returning(scroller_set_scroll(m, item_region(index - 1).y1), TRUE)
        ELSE Returning(m, FALSE)

\* 2^64 modulo n, for the conversion of a negative int to size_t.
pow2_64_mod(n) ==
    LET p16 == 65536 % n
        p32 == (p16 * p16) % n
    IN  (p32 * p32) % n

\* next % items.size(): next is converted to the unsigned type of the size.
mod_size(next, n) ==
    IF next >= 0 THEN next % n ELSE (pow2_64_mod(n) + (next % n)) % n

\* Menu::next_block_from
next_block_from(its, index, forward, wrap) ==
    LET next == IF forward
                THEN header_block_last(its, index) + 1
                ELSE header_block_first(its, index) - 1
        landed == IF wrap
                  THEN mod_size(next, Size(its))
                  ELSE Max(Min(next, Size(its) - 1), 0)
    IN  header_block_first(its, landed)

RECURSIVE next_header(_, _, _, _, _)
\* The while loop of cycle_headers: the heading it stops at, or -1 when it
\* is back at start; turns bounds the walk by the number of entries.
next_header(its, cur, start, forward, turns) ==
    IF cur = start THEN -1
    ELSE IF turns = 0 THEN -2
    ELSE IF is_heading(At(its, cur)) THEN cur
    ELSE next_header(its, next_block_from(its, cur, forward, TRUE), start,
                     forward, turns - 1)

\* Menu::cycle_headers
cycle_headers(m, forward) ==
    IF Size(m.items) = 0
    THEN Returning(m, FALSE)
    ELSE LET from == IF is_set("MF_ARROWS_SELECT")
                     THEN Max(m.last_hovered, 0)
                     ELSE get_first_visible(m, FALSE)
             start == header_block_first(m.items, from)
             cur == next_header(m.items,
                                next_block_from(m.items, start, forward, TRUE),
                                start, forward, Size(m.items) + 1)
         IN  IF cur = -1 THEN Returning(m, FALSE)
             ELSE IF cur = -2 THEN Failing(m, "hangs")
             ELSE LET m1 == IF ~item_visible(m, cur) \/ ~is_set("MF_ARROWS_SELECT")
                            THEN set_scroll(m, cur)
                            ELSE m
                      m2 == IF is_set("MF_ARROWS_SELECT")
                            THEN cycle_hover(set_hovered(m1, cur, FALSE), FALSE)
                            ELSE m1
                  IN  Returning(m2, TRUE)

(***************************************************************************)
(* Menu: selection                                                         *)
(***************************************************************************)
\* Menu::get_selected(&sel)
get_selected(its) == SelectSeq([i \in 1 .. Len(its) |-> i - 1],
                               LAMBDA i : selected(At(its, i)))

\* Menu::select_item_index
select_item_index(m, idx, qty) ==
    [m EXCEPT !.items[idx + 1] = select(@, qty)]

\* Menu::deselect_all
deselect_all(m) ==
    [m EXCEPT !.items = [i \in 1 .. Len(m.items) |->
                            IF m.items[i].level = "MEL_ITEM" /\ selected(m.items[i])
                            THEN select(m.items[i], 0)
                            ELSE m.items[i]],
              !.sel = <<>>]

\* _key_is_minus
key_is_minus(keyin) == keyin = Ch.minus

\* Menu::is_hotkey
is_hotkey(m, i, key) ==
    /\ is_hotkey_of(At(m.items, i), key)
    /\ (~is_set("MF_SELECT_BY_PAGE") \/ in_page(m, i, FALSE))

\* Menu::is_selectable: with a select filter, whether a pattern of it matches.
is_selectable(m, item) == ~has_select_filter \/ At(m.items, item).matches

\* The test of the loops of select_index without the skip of the items
\* that have no hotkey.
hotkeyed_or_plain_item(m, i) ==
    /\ At(m.items, i).level = "MEL_ITEM"
    /\ \/ hotkeys_count(At(m.items, i)) = 0
       \/ is_hotkey(m, i, At(m.items, i).hotkeys[1])

\* An entry that the loops of select_index over the items select: an item
\* with a hotkey, which is_hotkey accepts.
hotkeyed_item(m, i) ==
    /\ At(m.items, i).level = "MEL_ITEM"
    /\ hotkeys_count(At(m.items, i)) > 0
    /\ is_hotkey(m, i, At(m.items, i).hotkeys[1])

\* select_index(-1, qty) that first clears what is selected.
select_all_items_afresh(m, qty) ==
    [m EXCEPT !.items = [i \in 1 .. Len(m.items) |->
        IF hotkeyed_item(m, i - 1) /\ (qty # -2 \/ is_selectable(m, i - 1))
        THEN select([m.items[i] EXCEPT !.selected_qty = 0], qty)
        ELSE [m.items[i] EXCEPT !.selected_qty = 0]]]

\* The loop of select_index(-1, qty) under MF_MULTISELECT.
select_all_items(m, qty) ==
    [m EXCEPT !.items = [i \in 1 .. Len(m.items) |->
        IF hotkeyed_item(m, i - 1) /\ (qty # -2 \/ is_selectable(m, i - 1))
        THEN select(m.items[i], qty)
        ELSE m.items[i]]]

\* The loop of select_index(si, qty) for a subtitle under MF_MULTISELECT.
select_items_after(m, si, qty) ==
    [m EXCEPT !.items = [i \in 1 .. Len(m.items) |->
        IF i - 1 > si /\ hotkeyed_item(m, i - 1)
        THEN select(m.items[i], qty)
        ELSE m.items[i]]]

\* The last branch of select_index: an item, in a menu that selects.
select_entry(m, si, qty) ==
    IF is_set("MF_SINGLESELECT") \/ is_set("MF_MULTISELECT")
    THEN select_item_index(m, si, qty)
    ELSE m

\* Menu::select_index
select_index(m, index, qty) ==
    LET si == IF index = -1 THEN get_first_visible(m, FALSE) ELSE index
    IN  IF index = -1
        THEN IF is_set("MF_MULTISELECT") THEN select_all_items(m, qty) ELSE m
        ELSE IF ~in_range(m, si)
        THEN Failing(m, "out_of_bounds")
        ELSE IF At(m.items, si).level = "MEL_SUBTITLE" /\ is_set("MF_MULTISELECT")
        THEN select_items_after(m, si, qty)
        ELSE IF At(m.items, si).level = "MEL_ITEM"
        THEN select_entry(m, si, qty)
        ELSE m

RECURSIVE select_each(_, _, _, _)
\* The second loop of select_items from entry i on: select_index for every
\* entry that has the key among its hotkeys.
select_each(m, i, key, qty) ==
    IF i >= Size(m.items) THEN m
    ELSE select_each(IF is_hotkey(m, i, key) THEN select_index(m, i, qty) ELSE m,
                     i + 1, key, qty)

\* A first loop of select_items that scans from the top of the list.
primary_match_from_top(m, key) ==
    LET hit(index) ==
            /\ is_hotkey(m, index, key)
            /\ (At(m.items, index).hotkeys[1] = key \/ is_set("MF_SINGLESELECT"))
    IN  Least({i \in Indices(m.items) : hit(i)}, -1)

\* The first loop of select_items: the first entry, from the first visible
\* one on and around, that has the key as its primary hotkey (under
\* MF_SINGLESELECT: as any hotkey), or -1.
primary_match(m, key) ==
    LET final == Size(m.items)
        first_entry == get_first_visible(m, FALSE)
        hit(i) ==
            LET index == (i + first_entry) % final
            IN  /\ is_hotkey(m, index, key)
                /\ (At(m.items, index).hotkeys[1] = key \/ is_set("MF_SINGLESELECT"))
        i0 == Least({i \in 0 .. (final - 1) : hit(i)}, -1)
    IN  IF i0 < 0 THEN -1 ELSE (i0 + first_entry) % final

\* A select_items whose second loop stops at the first entry that has the
\* key.
select_by_hotkey_once(m, key, qty) ==
    LET index == primary_match(m, key)
        snaps == {i \in Indices(m.items) : is_hotkey(m, i, key)}
    IN  IF index >= 0
        THEN set_hovered(select_index(m, index, qty), index, FALSE)
        ELSE IF is_set("MF_MULTISELECT") /\ snaps # {}
        THEN set_hovered(
                 snap_in_page(select_index(m, Least(snaps, -1), qty),
                              Least(snaps, -1)),
                 Least(snaps, -1), FALSE)
        ELSE m

\* The end of select_items: by hotkey.
select_by_hotkey(m, key, qty) ==
    LET index == primary_match(m, key)
        snaps == {i \in Indices(m.items) : is_hotkey(m, i, key)}
    IN  IF index >= 0
        THEN set_hovered(select_index(m, index, qty), index, FALSE)
        ELSE IF is_set("MF_MULTISELECT") /\ snaps # {}
        THEN set_hovered(
                 snap_in_page(select_each(m, 0, key, qty),
                              CHOOSE i \in snaps : \A j \in snaps : j <= i),
                 Least(snaps, -1), FALSE)
        ELSE m

\* Menu::select_items
select_items(m, key, qty) ==
    IF key = Ch.comma /\ is_set("MF_MULTISELECT") THEN select_index(m, -1, -2)
    ELSE IF key = Ch.star /\ is_set("MF_MULTISELECT") THEN select_index(m, -1, -1)
    ELSE IF key_is_minus(key) /\ is_set("MF_MULTISELECT") THEN select_index(m, -1, 0)
    ELSE select_by_hotkey(m, key, qty)

(***************************************************************************)
(* Menu: commands and keys                                                 *)
(***************************************************************************)
\* enum action (menu.h), in its order.
Actions == <<"ACT_EXECUTE", "ACT_EXAMINE", "ACT_MISC">>
action_number(a) == CHOOSE n \in 1 .. Len(Actions) : Actions[n] = a

\* Menu::cycle_mode
cycle_mode(m, forward) ==
    IF action_cycle = "CYCLE_NONE"
    THEN Returning(m, FALSE)
    ELSE IF action_cycle = "CYCLE_TOGGLE" /\ m.menu_action = "ACT_MISC"
    THEN Failing(m, "assert")
    ELSE LET n == action_number(m.menu_action) - 1
             next == IF action_cycle = "CYCLE_TOGGLE"
                     THEN (IF m.menu_action = "ACT_EXECUTE"
                           THEN "ACT_EXAMINE" ELSE "ACT_EXECUTE")
                     ELSE IF forward
                     THEN Actions[((n + 1) % Len(Actions)) + 1]
                     ELSE Actions[((n + Len(Actions) - 1) % Len(Actions)) + 1]
         IN  Returning([m EXCEPT !.menu_action = next, !.sel = <<>>], TRUE)

\* Menu::filter_with_regex for a pattern that matches the entries whose
\* `matches` is set.
filter_with_regex(m) ==
    LET hits == {i \in Indices(m.items) :
                    At(m.items, i).level = "MEL_ITEM" /\ At(m.items, i).matches}
        chosen == IF is_set("MF_SINGLESELECT") /\ hits # {}
                  THEN {Least(hits, -1)}
                  ELSE hits
        its == [i \in 1 .. Len(m.items) |->
                   IF (i - 1) \in chosen
                   THEN select_index(m, i - 1, -1).items[i]
                   ELSE m.items[i]]
    IN  Returning([m EXCEPT !.items = its, !.sel = get_selected(its)],
                  ~(is_set("MF_SINGLESELECT") /\ hits # {}))

\* key_to_command(keyin, KMC_MENU): the keys the menu's key map binds.
key_to_command(keyin) ==
    CASE keyin = CK.UP -> "CMD_MENU_UP"
      [] keyin = CK.DOWN -> "CMD_MENU_DOWN"
      [] keyin = CK.LINE_UP -> "CMD_MENU_LINE_UP"
      [] keyin = CK.LINE_DOWN -> "CMD_MENU_LINE_DOWN"
      [] keyin = CK.PGUP \/ keyin = Ch.minus -> "CMD_MENU_PAGE_UP"
      [] keyin = CK.PGDN \/ keyin = Ch.space -> "CMD_MENU_PAGE_DOWN"
      [] keyin = CK.HOME -> "CMD_MENU_SCROLL_TO_TOP"
      [] keyin = CK.END -> "CMD_MENU_SCROLL_TO_END"
      [] keyin = CK.SEARCH -> "CMD_MENU_SEARCH"
      [] keyin = CK.CYCLE_MODE -> "CMD_MENU_CYCLE_MODE"
      [] keyin = CK.CYCLE_MODE_REVERSE -> "CMD_MENU_CYCLE_MODE_REVERSE"
      [] keyin = CK.CYCLE_HEADERS -> "CMD_MENU_CYCLE_HEADERS"
      [] keyin = CK.HELP -> "CMD_MENU_HELP"
      [] keyin = CK.ESCAPE -> "CMD_MENU_EXIT"
      [] OTHER -> "CMD_NO_CMD"

\* Menu::minus_is_pageup
minus_is_pageup == ~is_set("MF_MULTISELECT") /\ ~is_set("MF_SPECIAL_MINUS")

\* Menu::skip_process_command
skip_process_command(keyin) == key_is_minus(keyin) /\ ~minus_is_pageup

\* Menu::get_command
get_command(keyin) ==
    IF skip_process_command(keyin) THEN "CMD_NO_CMD"
    ELSE IF keyin = -1 THEN "CMD_MENU_EXIT"
    ELSE key_to_command(keyin)

\* CMD_MENU_PAGE_DOWN after page_down: at the end a wrapping menu goes back
\* to the top.
page_wrapped(m) ==
    Returning(IF ~m.ret /\ is_set("MF_WRAP") THEN scroller_set_scroll(m, 0) ELSE m,
              TRUE)

\* The switch of process_command; `line` is what title_prompt read.
run_command(m, cmd, line) ==
    CASE cmd = "CMD_MENU_UP" ->
             Returning(IF is_set("MF_ARROWS_SELECT")
                       THEN cycle_hover(m, TRUE) ELSE line_up(m), TRUE)
      [] cmd = "CMD_MENU_DOWN" ->
             Returning(IF is_set("MF_ARROWS_SELECT")
                       THEN cycle_hover(m, FALSE) ELSE line_down(m), TRUE)
      [] cmd = "CMD_MENU_LINE_UP" -> Returning(line_up(m), TRUE)
      [] cmd = "CMD_MENU_LINE_DOWN" -> Returning(line_down(m), TRUE)
      [] cmd = "CMD_MENU_PAGE_UP" -> Returning(page_up(m), TRUE)
      [] cmd = "CMD_MENU_PAGE_DOWN" -> page_wrapped(page_down(m))
      [] cmd = "CMD_MENU_SCROLL_TO_TOP" ->
             LET m1 == scroller_set_scroll(m, 0)
             IN  Returning(IF is_set("MF_ARROWS_SELECT") /\ Size(m.items) > 0
                           THEN hover_onto_item(set_hovered(m1, 0, FALSE), FALSE)
                           ELSE m1, TRUE)
      [] cmd = "CMD_MENU_SCROLL_TO_END" ->
             IF Size(m.items) = 0 THEN Returning(m, TRUE)
             ELSE LET m1 == IF ~in_page(m, Size(m.items) - 1, TRUE)
                            THEN scroller_set_scroll(m, INT_MAX)
                            ELSE m
                  IN  Returning(IF is_set("MF_ARROWS_SELECT")
                                THEN hover_onto_item(
                                         set_hovered(m1, Size(m.items) - 1, FALSE),
                                         TRUE)
                                ELSE m1, TRUE)
      [] cmd = "CMD_MENU_SEARCH" ->
             IF is_set("MF_ALLOW_FILTER") /\ line = "pattern"
             THEN filter_with_regex(m)
             ELSE Returning(m, TRUE)
      [] cmd = "CMD_MENU_CYCLE_MODE" -> Returning(cycle_mode(m, TRUE), TRUE)
      [] cmd = "CMD_MENU_CYCLE_MODE_REVERSE" -> Returning(cycle_mode(m, FALSE), TRUE)
      [] cmd = "CMD_MENU_CYCLE_HEADERS" -> Returning(cycle_headers(m, TRUE), TRUE)
      [] cmd = "CMD_MENU_EXIT" ->
             Returning([m EXCEPT !.sel = <<>>, !.lastch = CK.ESCAPE],
                       is_set("MF_UNCANCEL") /\ ~m.seen_hups)
      [] OTHER -> Returning(m, TRUE)

\* The end of process_command: a command resets the number state.
command_done(m, cmd) ==
    IF m.fault # "none" THEN m
    ELSE IF cmd # "CMD_NO_CMD" THEN [m EXCEPT !.num = -1]
    ELSE m

\* Menu::process_command
process_command(m, cmd, line) == command_done(run_command(m, cmd, line), cmd)

\* Quantity digits of which only the last one is kept.
accumulate_last_digit(n, keyin) == keyin - Ch.zero

\* The quantity digits of process_key.
accumulate(n, keyin) ==
    LET kept == IF n > MaxNum THEN -1 ELSE n
    IN  IF kept = -1 THEN keyin - Ch.zero ELSE kept * 10 + keyin - Ch.zero

\* The end of process_key: the number state is reset unless a digit was typed.
finish_key(m, keyin) ==
    Returning(IF ~isadigit(keyin) THEN [m EXCEPT !.num = -1] ELSE m, TRUE)

\* A '.' that toggles the hovered entry in every kind of menu.
toggle_hovered_in_any_mode(m) ==
    IF m.last_hovered # -1
    THEN IF ~in_range(m, m.last_hovered)
         THEN Failing(m, "out_of_bounds")
         ELSE LET m1 == select_item_index(m, m.last_hovered, -1)
              IN  [m1 EXCEPT !.sel = get_selected(m1.items)]
    ELSE m

\* process_key, case '.': the hovered entry of a multiselect menu is toggled.
toggle_hovered(m) ==
    IF m.last_hovered # -1 /\ is_set("MF_MULTISELECT")
    THEN IF ~in_range(m, m.last_hovered)
         THEN Failing(m, "out_of_bounds")
         ELSE LET m1 == select_item_index(m, m.last_hovered, -1)
              IN  [m1 EXCEPT !.sel = get_selected(m1.items)]
    ELSE m

\* process_key with one entry selected under MF_SINGLESELECT: the entry's
\* action, or else on_single_selection, decides whether the menu goes on.
single_selection(m) ==
    LET item == At(m.items, At(m.sel, 0))
        result == IF item.on_select # "none"
                  THEN item.on_select = "handled"
                  ELSE on_single_selection = "handled"
    IN  Returning(IF result THEN deselect_all(m) ELSE m, result)

\* process_key, the default case after select_items: the selection is read,
\* a single selection is acted on, and the menu goes on or ends.
selection_made(m, keyin) ==
    LET m1 == [m EXCEPT !.sel = get_selected(m.items)]
    IN  IF m.fault # "none" THEN m
        ELSE IF Len(m1.sel) = 1 /\ is_set("MF_SINGLESELECT")
        THEN single_selection(m1)
        ELSE IF is_set("MF_ANYPRINTABLE")
                /\ (~isadigit(keyin) \/ is_set("MF_NO_SELECT_QTY"))
        THEN Returning(m1, FALSE)
        ELSE finish_key(m1, keyin)

\* process_key, the default case of the switch.
handle_key(m, keyin) ==
    IF ~(is_set("MF_SINGLESELECT") \/ is_set("MF_MULTISELECT"))
    THEN Returning([m EXCEPT !.lastch = keyin], FALSE)
    ELSE selection_made(select_items([m EXCEPT !.lastch = keyin], keyin, m.num),
                        keyin)

\* process_key, case CK_ENTER, which falls through to the default case.
handle_enter(m, keyin) ==
    LET hovered == is_set("MF_SINGLESELECT") /\ m.last_hovered >= 0
    IN  IF hovered /\ ~in_range(m, m.last_hovered)
        THEN Failing(m, "out_of_bounds")
        ELSE IF ~hovered /\ (~is_set("MF_PRESELECTED") \/ m.sel # <<>>)
        THEN Returning(m, FALSE)
        ELSE handle_key(IF hovered
                        THEN select_item_index(m, m.last_hovered, 1)
                        ELSE m, keyin)

\* process_key, the cases of '.' and of the click codes without a selection.
handle_dot(m, keyin) == IF m.fault # "none" THEN m ELSE finish_key(m, keyin)

\* A process_key without the check of an empty list: the key goes straight
\* to the manual key handling.
process_key_unguarded(m, key, line) == handle_key(m, key)

\* Menu::process_key; `line` is what a title prompt reads.
process_key(m, key, line) ==
    IF ~is_set("MF_SHOW_EMPTY") /\ Size(m.items) = 0
    THEN Returning([m EXCEPT !.lastch = key], FALSE)
    ELSE LET keyin == IF key = Ch.space /\ is_set("MF_MULTISELECT")
                         /\ is_set("MF_ARROWS_SELECT")
                      THEN Ch.dot ELSE key
             digit == /\ ~is_set("MF_NO_SELECT_QTY")
                      /\ ~is_set("MF_NOSELECT")
                      /\ isadigit(keyin)
             m1 == IF digit THEN [m EXCEPT !.num = accumulate(m.num, keyin)] ELSE m
             cmd == IF digit THEN "CMD_NO_CMD" ELSE get_command(keyin)
             click == keyin = CK.MOUSE_B1 \/ keyin = CK.MOUSE_CLICK
         IN  IF cmd # "CMD_NO_CMD" THEN process_command(m1, cmd, line)
             ELSE IF keyin = CK.REDRAW \/ keyin = 0 THEN Returning(m1, TRUE)
             ELSE IF click /\ ~is_set("MF_NOSELECT") THEN finish_key(m1, keyin)
             ELSE IF click \/ keyin = Ch.dot
             THEN handle_dot(toggle_hovered(m1), keyin)
             ELSE IF keyin = CK.ENTER THEN handle_enter(m1, keyin)
             ELSE handle_key(m1, keyin)

(***************************************************************************)
(* The layout functions on long entry lists                                *)
(***************************************************************************)
\* Bounds of the entry lists the layout functions are applied to.
MaxEntries == 54
SmallEntries == 2
MaxColumns == 2
MaxHeadings == 2
ShortText == 10
LongText == 60
ScrollRows == 1
ScrollJitter == 1

LayoutSizes == (0 .. SmallEntries) \cup ((MaxEntries - 1) .. MaxEntries)
HeadingSlots(n) == {0, 1, HotkeyCap, n - 1} \cap (0 .. (n - 1))
HeadingSets(n) == {H \in SUBSET HeadingSlots(n) : Cardinality(H) <= MaxHeadings}
Periods == {0, 2}
LayoutWidths == {INT_MAX, 3 * DefaultMinColumnWidth, DefaultMinColumnWidth}

EveryNth(j, period, phase) == period > 0 /\ j % period = phase % period

\* A list of n entries: the entries at H are headings, every tile_period-th
\* entry has tiles and every long_period-th entry a long text.
EntryList(n, H, tile_period, long_period) ==
    [i \in 1 .. n |->
        MenuEntry(IF (i - 1) \in H THEN "MEL_SUBTITLE" ELSE "MEL_ITEM",
                  1, <<Ch.a + ((i - 1) % 26)>>, "none",
                  IF EveryNth(i - 1, long_period, 1) THEN LongText ELSE ShortText,
                  EveryNth(i - 1, tile_period, 0), TRUE)]

LayoutInit ==
    \E n \in LayoutSizes, tile_period \in Periods, long_period \in Periods :
        \E H \in HeadingSets(n) :
            /\ Constructed(EntryList(n, H, tile_period, long_period), {},
                           "none", FALSE, "CYCLE_NONE", INT_MAX, INT_MAX)
            /\ int_overflow = "wraps"
            /\ pc = "call"

laid_out == row_heights # <<>>

\* do_layout(mw, num_columns) on the entries.  A layout pass does not read the
\* viewport or the scroll offset, so the passes are taken before the scroller
\* is sized: a pass from a scrolled state would give the same layout.
CallDoLayout(mw, num_columns) ==
    LET r == do_layout(items, mw, num_columns, m_min_col_width, m_scroll_context,
                       "MF_NO_WRAP_ROWS" \in flags)
    IN  /\ vph = 0
        /\ item_info' = r.item_info
        /\ row_heights' = r.row_heights
        /\ m_height' = r.m_height
        /\ m_nat_column_width' = r.m_nat_column_width
        /\ m_scroll_context' = r.m_scroll_context
        /\ m_num_columns' = num_columns
        /\ menu_w' = mw
        /\ op' = [name |-> "do_layout", mw |-> mw, num_columns |-> num_columns]
        /\ UNCHANGED <<menuVars, m_min_col_width, m_force_scroll,
                       m_initial_hover_snap, m_hover_idx, m_scroll, vph, max_height,
                       max_size_height, seen_hups, mouseVars, int_overflow,
                       pc, pre>>

ViewportHeights == {5 * char_height}

\* The scroller is given a height: the page height cap, or a smaller one.
CallSetViewport(h, cap) ==
    /\ vph' = h
    /\ max_size_height' = cap
    /\ m_scroll' = 0
    /\ op' = [name |-> "viewport", height |-> h]
    /\ UNCHANGED <<menuVars, uiVars, menu_w, max_height, seen_hups, mouseVars,
                   int_overflow, pc, pre>>

ScrollOffsets ==
    {At(row_heights, r) + d :
        r \in 0 .. Min(Len(row_heights) - 1, ScrollRows),
        d \in (0 - ScrollJitter) .. ScrollJitter}
    \cup {Max(0, m_height - vph) + d : d \in (0 - ScrollJitter) .. 0}

\* Scroller::set_scroll(y) followed by the scroller's allocation, which keeps
\* the offset between 0 and the content height less the viewport height.
CallSetScroll(y) ==
    /\ laid_out
    /\ vph > 0
    /\ m_scroll' = Max(0, Min(y, m_height - vph))
    /\ op' = [name |-> "set_scroll", y |-> y]
    /\ UNCHANGED <<menuVars, uiVars, vph, menu_w, max_height, max_size_height,
                   seen_hups, mouseVars, int_overflow, pc, pre>>

LayoutNext ==
    \/ \E mw \in LayoutWidths, num_columns \in 1 .. MaxColumns :
           CallDoLayout(mw, num_columns)
    \/ /\ laid_out
       /\ vph = 0
       /\ LET cap == get_max_viewport_height(items, item_info, row_heights)
          IN  \E h \in ViewportHeights \cup {cap} : CallSetViewport(h, cap)
    \/ \E y \in ScrollOffsets : CallSetScroll(y)

SpecLayout == LayoutInit /\ [][LayoutNext]_vars


(***************************************************************************)
(* The layout engine's properties, checked under SpecLayout                *)
(***************************************************************************)
visible_range == is_visible_item_range(item_info, row_heights, m_scroll, vph, Size(items))

\* The number of entries in the visible range that are no headings.
visible_item_count ==
    Cardinality({i \in visible_range.vis_min .. (visible_range.vis_max - 1) :
                    ~is_heading(At(items, i))})

total_item_count == Cardinality({i \in Indices(items) : ~is_heading(At(items, i))})

capped_viewport == laid_out /\ vph > 0 /\ vph = max_size_height

\* C1: with the viewport as high as get_max_viewport_height returns, at every
\* scroll offset from 0 to content height - viewport height the visible range
\* holds at most 52 entries that are no headings, and with more than 52 such
\* entries the returned height is below the content height.
C1_PageHotkeyCap ==
    (capped_viewport /\ m_scroll \in 0 .. (m_height - vph)) =>
        /\ visible_item_count <= HotkeyCap
        /\ total_item_count > HotkeyCap => vph < m_height

\* The part of C1 that the code keeps: more than 52 entries that are no
\* headings need a second page, and a page that starts at a row boundary
\* holds at most 52 of them.
C1_CapAtRowBoundary ==
    (capped_viewport /\ m_scroll \in 0 .. (m_height - vph)) =>
        /\ total_item_count > HotkeyCap => vph < m_height
        /\ (\E r \in 1 .. Len(row_heights) : row_heights[r] = m_scroll) =>
               visible_item_count <= HotkeyCap

RowsOf(info) == {At(info, i).row : i \in Indices(info)}

\* C2: after do_layout the row-height boundary table has one element more
\* than there are rows, never decreases from one index to the next, and ends
\* with the content height m_height.
C2_RowHeightTable ==
    laid_out =>
        /\ Len(row_heights) = Cardinality(RowsOf(item_info)) + 1
        /\ \A r \in 1 .. (Len(row_heights) - 1) : row_heights[r] <= row_heights[r + 1]
        /\ row_heights[Len(row_heights)] = m_height

C2_Witness ==
    /\ op.name = "do_layout"
    /\ m_num_columns > 1
    /\ Size(items) > HotkeyCap
    /\ \E i \in Indices(items) : is_heading(At(items, i))
    /\ Len(row_heights) > 3
    /\ row_heights[Len(row_heights)] = m_height
    /\ m_height > 0

\* C3: after do_layout with C columns every entry that is no heading has a
\* column in 0 .. C - 1, every heading has column 0 and its row to itself, and
\* the entry after a heading lies in a later row.
C3_HeadingRows ==
    laid_out =>
        \A i \in Indices(items) :
            LET e == At(item_info, i)
            IN  IF is_heading(At(items, i))
                THEN /\ e.column = 0
                     /\ \A j \in Indices(items) \ {i} : At(item_info, j).row # e.row
                     /\ i + 1 < Size(items) => At(item_info, i + 1).row > e.row
                ELSE e.column \in 0 .. (m_num_columns - 1)

C3_Witness ==
    /\ op.name = "do_layout"
    /\ m_num_columns > 1
    /\ Size(items) > 2
    /\ ~is_heading(At(items, 0))
    /\ is_heading(At(items, 1))
    /\ ~is_heading(At(items, 2))
    /\ At(item_info, 0).row < At(item_info, 1).row
    /\ At(item_info, 1).row < At(item_info, 2).row
    /\ \E i \in Indices(items) : At(item_info, i).column = m_num_columns - 1


(***************************************************************************)
(* The menu on screen: Menu::show, the layout passes and the events        *)
(***************************************************************************)
\* Menu::set_flags, with Options.menu_arrow_control on.
set_flags(new_flags) ==
    IF "MF_NOSELECT" \in new_flags
    THEN new_flags \ {"MF_ARROWS_SELECT", "MF_INIT_HOVER"}
    ELSE new_flags

\* The handlers' record written back to the menu.
Assign(m) ==
    /\ items' = m.items
    /\ sel' = m.sel
    /\ num' = m.num
    /\ lastch' = m.lastch
    /\ last_hovered' = m.last_hovered
    /\ menu_action' = m.menu_action
    /\ m_scroll' = m.m_scroll
    /\ m_hover_idx' = m.m_hover_idx
    /\ m_force_scroll' = m.m_force_scroll

\* Menu::show up to the start of the loop in do_menu: the selection is reused
\* or cleared, the initial hover is set, and update_menu sizes item_info.
show_start(m) ==
    IF is_set("MF_START_AT_END")
    THEN LET m1 == scroller_set_scroll(m, INT_MAX)
         IN  IF is_set("MF_INIT_HOVER")
             THEN hover_onto_item(set_hovered(m1, Size(m.items) - 1, FALSE), TRUE)
             ELSE m1
    ELSE IF is_set("MF_INIT_HOVER")
            /\ (m.last_hovered < 0
                \/ At(m.items, m.last_hovered).level # "MEL_ITEM")
    THEN cycle_hover(m, FALSE)
    ELSE m

\* do_menu after show's start: update_menu sizes item_info and hovers the
\* entry last hovered again.
update_menu(m) ==
    LET m1 == [m EXCEPT !.shown_items = Size(items)]
    IN  IF m.fault = "none" /\ m.last_hovered >= 0
        THEN set_hovered(m1, m.last_hovered, FALSE)
        ELSE m1

Shown(m) ==
    /\ Assign(m)
    /\ pc' = IF m.fault # "none" THEN "crashed" ELSE "layout"

Show(reuse_selections) ==
    /\ pc = "show"
    /\ Shown(update_menu(show_start(
           IF reuse_selections
           THEN [MenuState EXCEPT !.sel = get_selected(items)]
           ELSE deselect_all(MenuState))))
    /\ item_info' = [i \in 1 .. Len(items) |-> MenuItemInfo(0, 0, 0, 0)]
    /\ op' = [name |-> "show", ret |-> TRUE]
    /\ UNCHANGED <<flags, action_cycle, on_single_selection, has_select_filter,
                   row_heights, m_height, m_nat_column_width, m_scroll_context,
                   m_num_columns, m_min_col_width, m_initial_hover_snap, vph,
                   menu_w, max_height, max_size_height, seen_hups, mouseVars,
                   int_overflow, pre>>

\* do_layout(menu_w, num_columns) on the menu's entries.
layout_of(num_columns, scroll_context) ==
    do_layout(items, menu_w, num_columns, m_min_col_width, scroll_context,
              is_set("MF_NO_WRAP_ROWS"))

\* UIMenuPopup::_allocate_region, the switch between one and two columns,
\* given the layout with one column.
popup_columns(one) ==
    IF /\ draw_tiles(items)
       /\ is_set("MF_USE_TWO_COLUMNS")
       /\ \/ m_num_columns = 1 /\ one.m_height > max_height
          \/ m_num_columns = 2 /\ one.m_height <= max_height
    THEN 3 - m_num_columns
    ELSE m_num_columns

\* The layout the menu is left with, in the columns chosen.
popup_layout(one) ==
    [layout |-> layout_of(popup_columns(one), one.m_scroll_context),
     num_columns |-> popup_columns(one)]

\* The layout is stored, the page height is capped, the scroller gets its
\* height and brings the scroll offset back into the scrollable range.
Allocated(r) ==
    LET cap == get_max_viewport_height(items, r.layout.item_info,
                                       r.layout.row_heights)
        height == Min(Min(r.layout.m_height, max_height), cap)
    IN  /\ item_info' = r.layout.item_info
        /\ row_heights' = r.layout.row_heights
        /\ m_height' = r.layout.m_height
        /\ m_nat_column_width' = r.layout.m_nat_column_width
        /\ m_scroll_context' = r.layout.m_scroll_context
        /\ m_num_columns' = r.num_columns
        /\ max_size_height' = cap
        /\ vph' = height
        /\ m_scroll' = Max(0, Min(m_scroll, r.layout.m_height - height))

\* UIMenuPopup::_allocate_region with the scroller's allocation: the layout
\* in the columns in use (UIMenu::_get_preferred_size), the layout with one
\* column, the switch between one and two columns, and the page height cap.
\* The `more` line is empty.
LayoutPass ==
    /\ pc = "layout"
    /\ Allocated(popup_layout(
           layout_of(1, layout_of(m_num_columns, m_scroll_context).m_scroll_context)))
    /\ pc' = "allocate"
    /\ op' = [name |-> "layout", ret |-> TRUE]
    /\ UNCHANGED <<menuVars, m_min_col_width, m_force_scroll, m_initial_hover_snap,
                   m_hover_idx, menu_w, max_height, seen_hups, mouseVars,
                   int_overflow, pre>>

\* UIMenu::update_hovered_entry; the pointer is at m_mouse_x, m_mouse_y of
\* the viewport, that is m_scroll further down in the menu's region.
update_hovered_entry(m, mouse_x, mouse_y, force) ==
    LET y == mouse_y + m.m_scroll
        range == is_visible_item_range(item_info, row_heights, m.m_scroll, vph,
                                       Size(m.items))
        w == menu_w \div m_num_columns
        under(i) ==
            LET entry == At(item_info, i)
                entry_x == entry.column * w
                entry_h == row_bottom(item_info, row_heights, i)
                           - row_top(item_info, row_heights, i)
            IN  /\ ~is_heading(At(m.items, i))
                /\ (hotkeys_count(At(m.items, i)) > 0 \/ force)
                /\ mouse_x >= entry_x /\ mouse_x < entry_x + w
                /\ y >= entry.y /\ y < entry.y + entry_h
        i == Least({j \in range.vis_min .. (range.vis_max - 1) : under(j)}, -1)
    IN  IF i >= 0
        THEN IF force /\ m.last_hovered # i THEN set_hovered(m, i, TRUE)
             ELSE IF hotkeys_count(At(m.items, i)) > 0
             THEN [m EXCEPT !.m_hover_idx = i]
             ELSE m
        ELSE IF is_set("MF_ARROWS_SELECT") THEN m
        ELSE IF force THEN set_hovered(m, -1, TRUE)
        ELSE [m EXCEPT !.m_hover_idx = -1]

\* What an allocation or a pointer event that hovered to m leaves; a changed
\* scroll offset makes the scroller allocate again.
Hovered(m) ==
    /\ Assign(m)
    /\ pc' = IF m.fault # "none" THEN "crashed"
             ELSE IF m.m_scroll # m_scroll THEN "layout"
             ELSE "event"

\* An allocation that forgets the scroll asked for without replaying it.
scroll_dropped(m) == [m EXCEPT !.m_force_scroll = -1]

\* The three steps of UIMenu::_allocate_region.
scroll_replayed(m) ==
    IF m.m_force_scroll >= 0
    THEN [set_scroll(m, m.m_force_scroll) EXCEPT !.m_force_scroll = -1]
    ELSE m
hover_snapped(m) ==
    IF ~m_initial_hover_snap /\ m.last_hovered >= 0
    THEN snap_in_page(m, m.last_hovered)
    ELSE m
hover_allocated(m) ==
    IF ~is_set("MF_ARROWS_SELECT") \/ m.last_hovered < 0
    THEN update_hovered_entry(m, m_mouse_x, m_mouse_y, FALSE)
    ELSE [m EXCEPT !.m_hover_idx = m.last_hovered]

\* UIMenu::_allocate_region: the scroll asked for before the first layout is
\* replayed, the initial hover is snapped into the page, and the entry under
\* the pointer is found.  A changed scroll offset makes the scroller
\* allocate again.
AllocateRegion ==
    /\ pc = "allocate"
    /\ Hovered(hover_allocated(hover_snapped(scroll_replayed(MenuState))))
    /\ m_initial_hover_snap' = TRUE
    /\ op' = [name |-> "allocate", ret |-> TRUE]
    /\ UNCHANGED <<flags, action_cycle, on_single_selection, has_select_filter,
                   item_info, row_heights, m_height, m_nat_column_width,
                   m_scroll_context, m_num_columns, m_min_col_width, vph, menu_w,
                   max_height, max_size_height, seen_hups, mouseVars,
                   int_overflow, pre>>

\* The loop of do_menu goes on to the next layout unless the handler failed,
\* the key handler set done, or a hangup was seen.
after_event(m) ==
    IF m.fault # "none" THEN "crashed"
    ELSE IF ~m.ret THEN "done"
    ELSE "layout"

\* What a handler that ran to m leaves: the menu's fields, where the loop
\* goes, and the record of the call.
Handled(m, name, key) ==
    /\ Assign(m)
    /\ pc' = after_event(m)
    /\ op' = [name |-> name, key |-> key, ret |-> m.ret, fault |-> m.fault]

eventFrame == <<flags, action_cycle, on_single_selection, has_select_filter,
                item_info, row_heights, m_height, m_nat_column_width,
                m_scroll_context, m_num_columns, m_min_col_width,
                m_initial_hover_snap, vph, menu_w, max_height, max_size_height,
                seen_hups, int_overflow, pre>>

\* The key handler of do_menu: done = !process_key(ev.key()).  `line` is what
\* the title prompt of a search reads.
Key(k, line) ==
    /\ pc = "event"
    /\ Handled(process_key(MenuState, k, line), "process_key", k)
    /\ UNCHANGED <<eventFrame, mouseVars>>

\* UIMenu::on_event, MouseEnter and MouseMove: the entry under the pointer
\* becomes the hovered one.
MouseMove(type, x, y) ==
    /\ pc = "event"
    /\ Hovered(IF type = "MouseMove"
                  \/ ~is_set("MF_ARROWS_SELECT") \/ last_hovered < 0
               THEN update_hovered_entry(MenuState, x, y, TRUE)
               ELSE MenuState)
    /\ m_mouse_x' = x
    /\ m_mouse_y' = y
    /\ op' = [name |-> type, ret |-> TRUE]
    /\ UNCHANGED <<eventFrame, m_mouse_pressed>>

\* UIMenu::on_event, MouseLeave.
MouseLeave ==
    /\ pc = "event"
    /\ m_mouse_x' = -1
    /\ m_mouse_y' = -1
    /\ m_mouse_pressed' = FALSE
    /\ m_hover_idx' = IF is_set("MF_ARROWS_SELECT") THEN m_hover_idx ELSE -1
    /\ op' = [name |-> "MouseLeave", ret |-> TRUE]
    /\ UNCHANGED <<menuVars, eventFrame, m_force_scroll, m_scroll, pc>>

\* UIMenu::on_event, MouseDown with the left button.
MouseDown(x, y) ==
    /\ pc = "event"
    /\ m_mouse_x' = x
    /\ m_mouse_y' = y
    /\ m_mouse_pressed' = TRUE
    /\ pc' = "layout"
    /\ op' = [name |-> "MouseDown", ret |-> TRUE]
    /\ UNCHANGED <<menuVars, eventFrame, m_force_scroll, m_hover_idx, m_scroll>>

\* UIMenu::on_event, MouseUp with the left button: a click on the hovered
\* entry is the entry's first hotkey, given to the key handler of do_menu.
MouseUp(x, y) ==
    /\ pc = "event"
    /\ m_mouse_x' = x
    /\ m_mouse_y' = y
    /\ m_mouse_pressed' = FALSE
    /\ LET entry == m_hover_idx
           key == IF m_mouse_pressed /\ entry # -1
                     /\ hotkeys_count(At(items, entry)) > 0
                  THEN At(items, entry).hotkeys[1]
                  ELSE -1
       IN  IF key # -1
           THEN Handled(process_key(MenuState, key, "empty"), "process_key", key)
           ELSE Handled(MenuState, "MouseUp", key)
    /\ UNCHANGED eventFrame

\* crawl_state.seen_hups is set while the menu waits for a key: the key read
\* is then CK_ESCAPE, and the loop of do_menu ends after it.
Hangup ==
    /\ pc = "event"
    /\ seen_hups' = TRUE
    /\ Handled(Returning(process_key([MenuState EXCEPT !.seen_hups = TRUE],
                                     CK.ESCAPE, "empty"), FALSE), "hangup",
               CK.ESCAPE)
    /\ UNCHANGED <<flags, action_cycle, on_single_selection, has_select_filter,
                   item_info, row_heights, m_height, m_nat_column_width,
                   m_scroll_context, m_num_columns, m_min_col_width,
                   m_initial_hover_snap, vph, menu_w, max_height, max_size_height,
                   mouseVars, int_overflow, pre>>

\* crawl_state.seen_hups is set while an event is handled, with no key read
\* after it: the loop of do_menu ends at its next test.
HangupSeen ==
    /\ pc = "event"
    /\ ~seen_hups
    /\ seen_hups' = TRUE
    /\ pc' = "done"
    /\ op' = [name |-> "hangup_seen", ret |-> FALSE]
    /\ UNCHANGED <<menuVars, uiVars, m_scroll, vph, menu_w, max_height,
                   max_size_height, mouseVars, int_overflow, pre>>

(***************************************************************************)
(* The menus the host builds                                               *)
(***************************************************************************)
\* Bounds of the menus on screen.
MaxHotkeys == 3
MaxTyped == 0
MouseRows == 0
ScreenRows == 3

Hotkey(k) == Ch.a + k
Heading == MenuEntry("MEL_SUBTITLE", 0, <<>>, "none", ShortText, FALSE, FALSE)
Item(quantity, keys, on_select, matches) ==
    MenuEntry("MEL_ITEM", quantity, keys, on_select, ShortText, FALSE, matches)
TileItem(quantity, keys) ==
    MenuEntry("MEL_ITEM", quantity, keys, "none", ShortText, TRUE, TRUE)

\* [heading, apple, pear, kiwi]
FruitMenu ==
    <<Heading, Item(1, <<Hotkey(0)>>, "none", TRUE),
      Item(2, <<Hotkey(1)>>, "none", FALSE), Item(1, <<Hotkey(2)>>, "none", TRUE)>>
ShortMenu ==
    <<Heading, Item(1, <<Hotkey(0)>>, "none", TRUE),
      Item(2, <<Hotkey(1)>>, "none", FALSE)>>
ActionMenu ==
    <<Item(0, <<Hotkey(0)>>, "handled", TRUE), Item(1, <<Hotkey(1)>>, "none", FALSE)>>
OddMenu ==
    <<Item(0, <<Hotkey(0)>>, "unhandled", FALSE), Item(0, <<Hotkey(1)>>, "none", TRUE),
      Item(1, <<>>, "none", TRUE)>>
SharedKeyMenu ==
    <<Item(2, <<Hotkey(0), Hotkey(2)>>, "none", TRUE), Heading,
      Item(1, <<Hotkey(1), Hotkey(2)>>, "none", TRUE)>>
TileMenu ==
    <<TileItem(1, <<Hotkey(0)>>), TileItem(2, <<Hotkey(1)>>)>>
\* Two blocks, each a heading and one item.
TwoBlockMenu ==
    <<Heading, Item(1, <<Hotkey(0)>>, "none", TRUE),
      Heading, Item(2, <<Hotkey(1)>>, "none", TRUE)>>

\* A host's menu: the entries, the flags and whether a select filter is set.
Host(its, fl, filter) == [items |-> its, flags |-> fl, filter |-> filter]
Hosts ==
    {Host(ShortMenu, {"MF_NOSELECT"}, FALSE),
     Host(ActionMenu, {"MF_NOSELECT", "MF_ARROWS_SELECT", "MF_INIT_HOVER",
                       "MF_ALLOW_FILTER", "MF_PRESELECTED", "MF_WRAP"}, TRUE),
     Host(<<>>, {"MF_NOSELECT", "MF_SHOW_EMPTY", "MF_START_AT_END",
                 "MF_ANYPRINTABLE"}, FALSE),
     Host(ActionMenu, {"MF_SINGLESELECT"}, FALSE),
     Host(ShortMenu, {"MF_SINGLESELECT", "MF_ARROWS_SELECT", "MF_INIT_HOVER",
                      "MF_WRAP"}, FALSE),
     Host(OddMenu, {"MF_SINGLESELECT", "MF_ANYPRINTABLE", "MF_NO_SELECT_QTY",
                    "MF_ALLOW_FILTER", "MF_SPECIAL_MINUS", "MF_UNCANCEL"}, FALSE),
     Host(ShortMenu, {"MF_MULTISELECT"}, TRUE),
     Host(OddMenu, {"MF_MULTISELECT"}, FALSE),
     Host(<<>>, {"MF_MULTISELECT"}, FALSE),
     Host(<<>>, {"MF_SINGLESELECT", "MF_ARROWS_SELECT", "MF_INIT_HOVER",
                 "MF_ANYPRINTABLE"}, FALSE),
     Host(ActionMenu, {"MF_MULTISELECT", "MF_ARROWS_SELECT", "MF_SELECT_BY_PAGE",
                       "MF_SHOW_EMPTY"}, FALSE),
     Host(TileMenu, {"MF_MULTISELECT", "MF_PRESELECTED", "MF_ALLOW_FILTER",
                     "MF_UNCANCEL", "MF_USE_TWO_COLUMNS", "MF_NO_WRAP_ROWS"}, FALSE),
     Host(SharedKeyMenu, {"MF_MULTISELECT", "MF_ARROWS_SELECT", "MF_INIT_HOVER",
                          "MF_START_AT_END"}, FALSE)}

ScreenWidth == 2 * DefaultMinColumnWidth
ScreenHeight == ScreenRows * char_height

\* The menu before show: entries added, flags set, nothing selected.
MenuInit ==
    \E host \in Hosts :
        \E on_single \in IF "MF_SINGLESELECT" \in host.flags
                         THEN Callbacks ELSE {"none"},
           cycle \in IF "MF_WRAP" \in host.flags
                     THEN {"CYCLE_TOGGLE", "CYCLE_CYCLE"} ELSE {"CYCLE_NONE"} :
            /\ Constructed(host.items, set_flags(host.flags), on_single,
                           host.filter, cycle, ScreenWidth, ScreenHeight)
            /\ int_overflow \in IF "MF_START_AT_END" \in host.flags
                                THEN {"wraps", "exact"} ELSE {"wraps"}
            /\ pc = "show"

\* The keys of selection, with the arrow keys that move the hover.
Keys ==
    {Hotkey(k) : k \in 0 .. (MaxHotkeys - 1)}
    \cup {Ch.dot, Ch.comma, Ch.star, Ch.minus, Ch.space, Ch.zero + 5, CK.ENTER,
          CK.ESCAPE, CK.MOUSE_B1, CK.MOUSE_CLICK, CK.UP, CK.DOWN, CK.CYCLE_MODE}

\* Where the pointer is put: inside the rows of one-line entries, by row.
MousePoints ==
    {[x |-> item_pad, y |-> r * (char_height + 2 * item_pad) + item_pad] :
        r \in 0 .. MouseRows}

Next ==
    \/ \E reuse_selections \in BOOLEAN : Show(reuse_selections)
    \/ LayoutPass
    \/ AllocateRegion
    \/ \E k \in Keys : (isadigit(k) => num <= MaxTyped) /\ Key(k, "empty")
    \/ Key(CK.SEARCH, "pattern")
    \/ \E type \in {"MouseEnter", "MouseMove"}, p \in MousePoints :
           MouseMove(type, p.x, p.y)
    \/ MouseLeave
    \/ \E p \in MousePoints : MouseDown(p.x, p.y)
    \/ \E p \in MousePoints : MouseUp(p.x, p.y)
    \/ Hangup
    \/ HangupSeen

Spec == MenuInit /\ [][Next]_vars

(***************************************************************************)
(* The selection calls a host makes on a menu that is up                   *)
(***************************************************************************)
\* Bound of the quantities asked for.
MaxQty == 3

Quantities == {-2, -1} \cup (0 .. MaxQty)

OpsHosts ==
    {Host(FruitMenu, {"MF_MULTISELECT"}, TRUE),
     Host(FruitMenu, {"MF_MULTISELECT", "MF_SELECT_BY_PAGE"}, FALSE),
     Host(OddMenu, {"MF_MULTISELECT"}, FALSE),
     Host(ActionMenu, {"MF_MULTISELECT"}, TRUE),
     Host(SharedKeyMenu, {"MF_MULTISELECT"}, FALSE),
     Host(TwoBlockMenu, {"MF_MULTISELECT"}, FALSE),
     Host(ActionMenu, {"MF_SINGLESELECT"}, FALSE),
     Host(OddMenu, {"MF_SINGLESELECT"}, FALSE),
     Host(ShortMenu, {"MF_NOSELECT"}, FALSE)}

OpsInit ==
    \E host \in OpsHosts :
        /\ Constructed(host.items, set_flags(host.flags), "none", host.filter,
                       "CYCLE_NONE", ScreenWidth, ScreenHeight)
        /\ int_overflow = "wraps"
        /\ pc = "show"

callFrame == <<flags, sel, num, lastch, last_hovered, menu_action, action_cycle,
               on_single_selection, has_select_filter, uiVars, frameVars,
               mouseVars, int_overflow, pc>>

\* items[i]->select(qty)
CallSelect(i, qty) ==
    /\ pc = "event"
    /\ items' = [items EXCEPT ![i + 1] = select(@, qty)]
    /\ op' = [name |-> "select", index |-> i, qty |-> qty]
    /\ pre' = Snapshot(items, m_scroll, last_hovered, sel, num)
    /\ UNCHANGED callFrame

\* select_index(index, qty)
CallSelectIndex(index, qty) ==
    /\ pc = "event"
    /\ items' = select_index(MenuState, index, qty).items
    /\ op' = [name |-> "select_index", index |-> index, qty |-> qty]
    /\ pre' = Snapshot(items, m_scroll, last_hovered, sel, num)
    /\ UNCHANGED callFrame

OpsNext ==
    \/ Show(FALSE)
    \/ LayoutPass
    \/ AllocateRegion
    \/ \E i \in Indices(items), qty \in Quantities : CallSelect(i, qty)
    \/ \E index \in {-1} \cup Indices(items), qty \in Quantities :
           CallSelectIndex(index, qty)

SpecOps == OpsInit /\ [][OpsNext]_vars

(***************************************************************************)
(* Claims on selection                                                     *)
(***************************************************************************)
selected_entries(its) == {i \in Indices(its) : selected(At(its, i))}
others_unchanged(i) ==
    /\ Len(items) = Len(pre.items)
    /\ \A j \in Indices(items) : j # i => At(items, j) = At(pre.items, j)

\* C4, as stated: MenuEntry::select(qty) sets selected_qty by the first rule
\* that applies: (1) an action and quantity 0: 1; (2) qty = -2: quantity;
\* (3) the entry is selected: 0; (4) otherwise quantity if qty = -1, else qty.
C4_SelectRules ==
    op.name = "select" =>
        LET before == At(pre.items, op.index)
            was_selected == before.selected_qty > 0
                            /\ (before.quantity # 0 \/ before.on_select # "none")
        IN  At(items, op.index).selected_qty =
                IF before.on_select # "none" /\ before.quantity = 0 THEN 1
                ELSE IF op.qty = -2 THEN before.quantity
                ELSE IF was_selected THEN 0
                ELSE IF op.qty = -1 THEN before.quantity
                ELSE op.qty

\* C4, amended: rules (1) to (3) as stated; rule (4) applies to an entry
\* whose quantity is not 0, and an unselected entry of quantity 0 without an
\* action keeps its selected_qty.  Nothing else of the menu changes.
C4_SelectRulesByQuantity ==
    op.name = "select" =>
        LET before == At(pre.items, op.index)
            was_selected == before.selected_qty > 0
                            /\ (before.quantity # 0 \/ before.on_select # "none")
        IN  /\ At(items, op.index) =
                   [before EXCEPT !.selected_qty =
                       IF before.on_select # "none" /\ before.quantity = 0 THEN 1
                       ELSE IF op.qty = -2 THEN before.quantity
                       ELSE IF was_selected THEN 0
                       ELSE IF before.quantity = 0 THEN before.selected_qty
                       ELSE IF op.qty = -1 THEN before.quantity
                       ELSE op.qty]
            /\ others_unchanged(op.index)

\* select(qty) with qty > 0 was called on an unselected entry of quantity 0
\* without an action, and the entry's selected_qty is still 0.
C4_Witness ==
    /\ op.name = "select"
    /\ op.qty > 0
    /\ At(pre.items, op.index).quantity = 0
    /\ At(pre.items, op.index).on_select = "none"
    /\ At(items, op.index).selected_qty = 0

\* C5: for every entry 0 <= selected_qty <= quantity, after any sequence of
\* keys, also after a typed quantity larger than the entry's quantity and
\* after the selection of an entry with an action and quantity 0.
C5_SelectedQtyInRange ==
    \A i \in Indices(items) :
        /\ 0 <= At(items, i).selected_qty
        /\ At(items, i).selected_qty <= At(items, i).quantity

\* C6: under MF_SINGLESELECT, from an empty selection, at most one entry is
\* selected whenever process_key returns true (the menu goes on).
C6_AtMostOneSelected ==
    (is_set("MF_SINGLESELECT") /\ op.name = "process_key" /\ op.ret)
        => Cardinality(selected_entries(items)) <= 1

\* C7: under MF_NOSELECT no key and no pointer event changes the
\* selected_qty of an entry (every one starts at 0), and sel stays empty.
C7_NoSelectFrozen ==
    is_set("MF_NOSELECT") =>
        /\ \A i \in Indices(items) : At(items, i).selected_qty = 0
        /\ sel = <<>>

\* Under MF_NOSELECT '.' was pressed while the pointer hovered an entry, the
\* menu went on and nothing is selected.
C7_Witness ==
    /\ is_set("MF_NOSELECT")
    /\ op.name = "process_key"
    /\ op.key = Ch.dot
    /\ op.ret
    /\ last_hovered >= 0
    /\ \A i \in Indices(items) : At(items, i).selected_qty = 0

select_all_called ==
    op.name = "select_index" /\ op.index = -1 /\ is_set("MF_MULTISELECT")

\* C8, as stated: under MF_MULTISELECT, after select_index(-1, -2) the
\* selected entries are exactly the items that pass the select filter (all
\* items that can be selected, when there is no filter), whatever was
\* selected before.
C8_SelectAllExact ==
    (select_all_called /\ op.qty = -2) =>
        selected_entries(items) =
            {i \in Indices(items) :
                /\ At(items, i).level = "MEL_ITEM"
                /\ (~has_select_filter \/ At(items, i).matches)
                /\ (At(items, i).quantity # 0 \/ At(items, i).on_select # "none")}

\* The entries that select_index(-1, qty) works on: the items that have a
\* hotkey and, under MF_SELECT_BY_PAGE, are in the page.
in_select_all(i) ==
    /\ At(items, i).level = "MEL_ITEM"
    /\ hotkeys_count(At(items, i)) > 0
    /\ (~is_set("MF_SELECT_BY_PAGE") \/ in_page(MenuState, i, FALSE))

\* C8, amended: under MF_MULTISELECT, select_index(-1, -2) sets selected_qty
\* to the quantity (to 1 for an entry with an action and quantity 0) for
\* every item that has a hotkey, is in the page under MF_SELECT_BY_PAGE and
\* passes the select filter; every other entry stays as it was, so that an
\* entry selected before that fails the filter is still selected.
C8_SelectAllAdds ==
    (select_all_called /\ op.qty = -2) =>
        /\ Len(items) = Len(pre.items)
        /\ \A i \in Indices(items) :
               LET before == At(pre.items, i)
               IN  At(items, i) =
                       IF in_select_all(i)
                          /\ (~has_select_filter \/ before.matches)
                       THEN [before EXCEPT !.selected_qty =
                                IF before.on_select # "none" /\ before.quantity = 0
                                THEN 1 ELSE before.quantity]
                       ELSE before

\* select_index(-1, -2) was called with a select filter set: an entry that
\* fails the filter was selected and still is, and an entry that passes it
\* has been selected.
C8_Witness ==
    /\ select_all_called
    /\ op.qty = -2
    /\ has_select_filter
    /\ \E i \in Indices(items) :
           /\ ~At(items, i).matches
           /\ selected(At(pre.items, i))
           /\ selected(At(items, i))
    /\ \E j \in Indices(items) :
           /\ At(items, j).matches
           /\ ~selected(At(pre.items, j))
           /\ selected(At(items, j))

\* C9, as stated: under MF_MULTISELECT, select_index(-1, -1) flips every
\* entry (read as: every item): what was selected is unselected, what was
\* not selected is selected.
C9_InvertFlipsAll ==
    (select_all_called /\ op.qty = -1) =>
        \A i \in Indices(items) :
            At(items, i).level = "MEL_ITEM" =>
                (selected(At(items, i)) <=> ~selected(At(pre.items, i)))

\* C9, amended: under MF_MULTISELECT, select_index(-1, -1) works on the items
\* that have a hotkey (and are in the page under MF_SELECT_BY_PAGE): one with
\* an action and quantity 0 ends with selected_qty 1, a selected one ends
\* with 0, an unselected one of quantity > 0 ends with its quantity, and an
\* unselected one of quantity 0 stays as it is; so does every other entry.
C9_InvertFlipsHotkeyed ==
    (select_all_called /\ op.qty = -1) =>
        /\ Len(items) = Len(pre.items)
        /\ \A i \in Indices(items) :
               LET before == At(pre.items, i)
               IN  At(items, i) =
                       IF ~in_select_all(i) THEN before
                       ELSE [before EXCEPT !.selected_qty =
                                IF before.on_select # "none" /\ before.quantity = 0
                                THEN 1
                                ELSE IF selected(before) THEN 0
                                ELSE before.quantity]

\* The menu is [heading, apple, pear, kiwi]; only pear was selected,
\* select_index(-1, -1) was called, and exactly apple and kiwi are selected.
C9_Witness ==
    /\ select_all_called
    /\ op.qty = -1
    /\ ~is_set("MF_SELECT_BY_PAGE")
    /\ Len(items) = Len(FruitMenu)
    /\ is_heading(At(items, 0))
    /\ selected_entries(pre.items) = {2}
    /\ selected_entries(items) = {1, 3}

\* C10: for an item i, select_index(i, 0) leaves entry i unselected and the
\* selected_qty of every other entry as it was, whatever entry i was before
\* (selected or not, with or without an action).
C10_ClearsOnlyIndex ==
    (/\ op.name = "select_index"
     /\ op.index >= 0
     /\ op.qty = 0
     /\ At(items, op.index).level = "MEL_ITEM")
        => /\ ~selected(At(items, op.index))
           /\ others_unchanged(op.index)

\* The first heading after entry i, or the length of the list.
next_heading_after(its, i) ==
    Least({j \in Indices(its) : j > i /\ is_heading(At(its, j))}, Size(its))

\* C13: under MF_MULTISELECT, select_index(i, qty) on a subtitle i applies
\* select(qty) to exactly the items between i and the next heading; the
\* items after that heading, and every other entry, stay as they were.
C13_SubtitleSelectsBlock ==
    (/\ op.name = "select_index"
     /\ op.index >= 0
     /\ is_set("MF_MULTISELECT")
     /\ At(pre.items, op.index).level = "MEL_SUBTITLE")
        => /\ Len(items) = Len(pre.items)
           /\ \A j \in Indices(items) :
                  At(items, j) =
                      IF /\ j > op.index
                         /\ j < next_heading_after(pre.items, op.index)
                         /\ At(pre.items, j).level = "MEL_ITEM"
                      THEN select(At(pre.items, j), op.qty)
                      ELSE At(pre.items, j)

(***************************************************************************)
(* The hotkeys a host hands to select_items on a menu that scrolls         *)
(***************************************************************************)
\* Bound of the quantities handed over with a hotkey.
MaxKeyQty == 1

KeyQuantities == {-1} \cup (0 .. MaxKeyQty)

KeyedHeading(keys) ==
    MenuEntry("MEL_SUBTITLE", 0, keys, "none", ShortText, FALSE, FALSE)

\* Two items share the primary hotkey 'a', a page apart; 'b' is the primary
\* hotkey of one item and a further hotkey of another.
PagedMenu ==
    <<Item(1, <<Hotkey(0)>>, "none", TRUE), Item(1, <<Hotkey(1)>>, "none", TRUE),
      Heading, Item(2, <<Hotkey(0)>>, "none", TRUE),
      Item(1, <<Hotkey(2), Hotkey(1)>>, "none", TRUE)>>
\* A heading that has a hotkey of its own.
HeadKeyMenu ==
    <<KeyedHeading(<<Hotkey(2)>>), Item(1, <<Hotkey(0)>>, "none", TRUE),
      Item(1, <<Hotkey(1)>>, "none", TRUE)>>

KeyHosts ==
    {Host(PagedMenu, {"MF_MULTISELECT"}, FALSE),
     Host(SharedKeyMenu, {"MF_MULTISELECT"}, FALSE),
     Host(SharedKeyMenu, {"MF_SINGLESELECT"}, FALSE),
     Host(SharedKeyMenu, {"MF_MULTISELECT", "MF_SELECT_BY_PAGE"}, FALSE),
     Host(HeadKeyMenu, {"MF_MULTISELECT"}, FALSE),
     Host(HeadKeyMenu, {"MF_SINGLESELECT"}, FALSE)}

KeysInit ==
    \E host \in KeyHosts :
        /\ Constructed(host.items, set_flags(host.flags), "none", host.filter,
                       "CYCLE_NONE", ScreenWidth, ScreenHeight)
        /\ int_overflow = "wraps"
        /\ pc = "show"

\* The scroller is moved to the top of a row (the wheel, the scroll bar).
RowTops == {row_heights[r] : r \in 1 .. Len(row_heights)}
ScrollToRow(y) ==
    /\ pc = "event"
    /\ CallSetScroll(y)

\* What select_items(key, qty) that ran to m leaves.
KeySelected(m, key, qty) ==
    /\ Assign(m)
    /\ pc' = after_event(m)
    /\ op' = [name |-> "select_items", key |-> key, qty |-> qty]

\* select_items(key, qty), as process_key calls it for a key that is no
\* command; the scroller is allocated again after it.
CallSelectItems(key, qty) ==
    /\ pc = "event"
    /\ KeySelected(Returning(select_items(MenuState, key, qty), TRUE), key, qty)
    /\ pre' = Snapshot(items, m_scroll, last_hovered, sel, num)
    /\ UNCHANGED <<flags, action_cycle, on_single_selection, has_select_filter,
                   item_info, row_heights, m_height, m_nat_column_width,
                   m_scroll_context, m_num_columns, m_min_col_width,
                   m_initial_hover_snap, vph, menu_w, max_height, max_size_height,
                   seen_hups, mouseVars, int_overflow>>

KeysNext ==
    \/ Show(FALSE)
    \/ LayoutPass
    \/ AllocateRegion
    \/ \E y \in RowTops : ScrollToRow(y)
    \/ \E k \in 0 .. (MaxHotkeys - 1), qty \in KeyQuantities :
           CallSelectItems(Hotkey(k), qty)

SpecKeys == KeysInit /\ [][KeysNext]_vars

(***************************************************************************)
(* Claims on hotkeys                                                       *)
(***************************************************************************)
\* The first entry whose top is at or below the scroll offset there was
\* before the call, or the length of the list.
first_visible_before ==
    Least({i \in Indices(pre.items) :
              row_top(item_info, row_heights, i) >= pre.m_scroll},
          Size(pre.items))

\* The place of entry i in the scan that starts at the first visible entry
\* and wraps around the list.
scan_rank(i) == (i - first_visible_before) % Size(pre.items)

\* The entry of S that the scan meets first.
first_in_scan(S) == CHOOSE i \in S : \A j \in S : scan_rank(i) <= scan_rank(j)

primary_holders ==
    {i \in Indices(pre.items) :
        /\ hotkeys_count(At(pre.items, i)) > 0
        /\ At(pre.items, i).hotkeys[1] = op.key}
key_holders ==
    {i \in Indices(pre.items) : is_hotkey_of(At(pre.items, i), op.key)}

\* The entries as they were, with select(qty) applied to those of S.
selected_in(S) ==
    [i \in 1 .. Len(pre.items) |->
        IF (i - 1) \in S THEN select(pre.items[i], op.qty) ELSE pre.items[i]]

\* C11, as stated: under MF_MULTISELECT without MF_SELECT_BY_PAGE, when some
\* entry has the key as its primary hotkey, select_items(key, qty) acts on
\* exactly one entry, the first of them in the scan from the first visible
\* entry around the list: select(qty) is applied to it and every other
\* entry is left as it was.
C11_PrimaryHotkeyOne ==
    (/\ op.name = "select_items"
     /\ is_set("MF_MULTISELECT")
     /\ ~is_set("MF_SELECT_BY_PAGE")
     /\ primary_holders # {})
        => items = selected_in({first_in_scan(primary_holders)})

\* C11, amended: under MF_MULTISELECT without MF_SELECT_BY_PAGE, when the
\* first entry in the scan (from the first visible entry around the list)
\* that has the key as its primary hotkey is an item, select_items(key, qty)
\* applies select(qty) to that entry and leaves every other entry as it
\* was, also the other entries that have the key.
C11_PrimaryHotkeyItem ==
    (/\ op.name = "select_items"
     /\ is_set("MF_MULTISELECT")
     /\ ~is_set("MF_SELECT_BY_PAGE")
     /\ primary_holders # {}
     /\ At(pre.items, first_in_scan(primary_holders)).level = "MEL_ITEM")
        => items = selected_in({first_in_scan(primary_holders)})

\* Two items have the key as their primary hotkey; the menu was scrolled
\* past the first of them, select_items selected the second and left the
\* first unselected.
C11_Witness ==
    /\ op.name = "select_items"
    /\ is_set("MF_MULTISELECT")
    /\ ~is_set("MF_SELECT_BY_PAGE")
    /\ \E i, j \in primary_holders :
           /\ i < j
           /\ first_visible_before > i
           /\ first_visible_before <= j
           /\ ~selected(At(pre.items, j))
           /\ selected(At(items, j))
           /\ ~selected(At(items, i))

\* C12, as stated: under MF_MULTISELECT, when no entry has the key as its
\* primary hotkey, select_items(key, qty) applies select(qty) to every entry
\* of the list that has the key among its hotkeys and to no other; under
\* MF_SINGLESELECT any hotkey counts and only the first entry in the scan
\* that has the key is selected.
C12_SecondaryHotkeyAll ==
    op.name = "select_items" =>
        /\ (is_set("MF_MULTISELECT") /\ primary_holders = {})
               => items = selected_in(key_holders)
        /\ (is_set("MF_SINGLESELECT") /\ key_holders # {})
               => items = selected_in({first_in_scan(key_holders)})

\* The entries that have the key and that is_hotkey accepted before the
\* call: under MF_SELECT_BY_PAGE those in the page.
key_holders_in_page ==
    {i \in key_holders :
        \/ ~is_set("MF_SELECT_BY_PAGE")
        \/ in_page([MenuState EXCEPT !.m_scroll = pre.m_scroll], i, FALSE)}

\* C12, amended: the entries that count are those that have the key among
\* their hotkeys and, under MF_SELECT_BY_PAGE, are in the page.  Under
\* MF_MULTISELECT, when none of them has the key as its primary hotkey and
\* all of them are items, select(qty) is applied to each of them and to no
\* other entry.  Under MF_SINGLESELECT select(qty) is applied to the first of
\* them in the scan if it is an item, and nothing is selected if it is not.
C12_SecondaryHotkeyItems ==
    op.name = "select_items" =>
        /\ (/\ is_set("MF_MULTISELECT")
            /\ key_holders_in_page \cap primary_holders = {}
            /\ \A i \in key_holders_in_page : At(pre.items, i).level = "MEL_ITEM")
               => items = selected_in(key_holders_in_page)
        /\ (is_set("MF_SINGLESELECT") /\ key_holders_in_page # {})
               => items =
                      IF At(pre.items, first_in_scan(key_holders_in_page)).level
                             = "MEL_ITEM"
                      THEN selected_in({first_in_scan(key_holders_in_page)})
                      ELSE pre.items

\* Under MF_MULTISELECT two items have the key as a further hotkey and no
\* entry has it as its primary hotkey: select_items has selected both.
C12_Witness ==
    /\ op.name = "select_items"
    /\ is_set("MF_MULTISELECT")
    /\ primary_holders = {}
    /\ Cardinality(key_holders) >= 2
    /\ \A i \in key_holders :
           ~selected(At(pre.items, i)) /\ selected(At(items, i))

(***************************************************************************)
(* The snaps and the hover steps a host asks for on a menu that scrolls    *)
(***************************************************************************)
\* Bound of the screens: the tallest has NavScreens times ScreenHeight.
NavScreens == 2

\* Headings at the top, in the middle (two in a row) and at the end.
NavMenu ==
    <<Heading, Item(1, <<Hotkey(0)>>, "none", TRUE), Heading, Heading,
      Item(1, <<Hotkey(1)>>, "none", TRUE), Item(1, <<Hotkey(2)>>, "none", TRUE),
      Heading>>

\* A list of headings only.
HeadingsOnly == <<Heading, Heading, Heading>>

NavHosts ==
    {Host(NavMenu, {"MF_SINGLESELECT", "MF_ARROWS_SELECT"}, FALSE),
     Host(NavMenu, {"MF_MULTISELECT", "MF_ARROWS_SELECT", "MF_WRAP"}, FALSE),
     Host(PagedMenu, {"MF_MULTISELECT", "MF_ARROWS_SELECT", "MF_INIT_HOVER"}, FALSE),
     Host(ShortMenu, {"MF_SINGLESELECT", "MF_ARROWS_SELECT", "MF_WRAP"}, FALSE),
     Host(FruitMenu, {"MF_MULTISELECT"}, FALSE),
     Host(<<>>, {"MF_MULTISELECT", "MF_ARROWS_SELECT", "MF_SHOW_EMPTY"}, FALSE),
     Host(HeadingsOnly, {"MF_MULTISELECT", "MF_ARROWS_SELECT", "MF_WRAP"}, FALSE),
     Host(HeadingsOnly, {"MF_SINGLESELECT"}, FALSE),
     Host(OddMenu, {"MF_SINGLESELECT", "MF_ARROWS_SELECT", "MF_INIT_HOVER"}, FALSE),
     Host(OddMenu, {"MF_MULTISELECT"}, FALSE)}

NavInit ==
    \E host \in NavHosts, screens \in 1 .. NavScreens :
        /\ Constructed(host.items, set_flags(host.flags), "none", host.filter,
                       "CYCLE_NONE", ScreenWidth, screens * ScreenHeight)
        /\ int_overflow = "wraps"
        /\ pc = "show"

navFrame == <<flags, action_cycle, on_single_selection, has_select_filter,
              item_info, row_heights, m_height, m_nat_column_width,
              m_scroll_context, m_num_columns, m_min_col_width,
              m_initial_hover_snap, vph, menu_w, max_height, max_size_height,
              seen_hups, mouseVars, int_overflow>>

\* What snap_in_page(index) that ran to m leaves; `again` tells that the
\* call before it was the same call, with nothing in between.
Snapped(m, index) ==
    /\ Assign(m)
    /\ pc' = "event"
    /\ op' = [name |-> "snap_in_page", index |-> index, ret |-> m.ret,
              again |-> op.name = "snap_in_page" /\ op.index = index]

\* snap_in_page(index)
CallSnapInPage(index) ==
    /\ pc = "event"
    /\ Snapped(snap_in_page(MenuState, index), index)
    /\ pre' = Snapshot(items, m_scroll, last_hovered, sel, num)
    /\ UNCHANGED navFrame

\* What cycle_hover(reverse) that ran to m leaves.
Cycled(m, reverse) ==
    /\ Assign(m)
    /\ pc' = IF m.fault # "none" THEN "crashed" ELSE "event"
    /\ op' = [name |-> "cycle_hover", reverse |-> reverse]

\* cycle_hover(reverse)
CallCycleHover(reverse) ==
    /\ pc = "event"
    /\ Cycled(cycle_hover(MenuState, reverse), reverse)
    /\ pre' = Snapshot(items, m_scroll, last_hovered, sel, num)
    /\ UNCHANGED navFrame

\* What cycle_headers(forward) that ran to m leaves.
Headed(m, forward) ==
    /\ Assign(m)
    /\ pc' = IF m.fault # "none" THEN "crashed" ELSE "event"
    /\ op' = [name |-> "cycle_headers", forward |-> forward, ret |-> m.ret,
              fault |-> m.fault]

\* cycle_headers(forward)
CallCycleHeaders(forward) ==
    /\ pc = "event"
    /\ Headed(cycle_headers(MenuState, forward), forward)
    /\ pre' = Snapshot(items, m_scroll, last_hovered, sel, num)
    /\ UNCHANGED navFrame

\* The indices a host passes: those of the entries, the one before the first
\* and the one after the last.
PassedIndices == -1 .. Size(items)

\* What set_scroll(index) that ran to m leaves.
Scrolled(m, index) ==
    /\ Assign(m)
    /\ pc' = "event"
    /\ op' = [name |-> "menu_set_scroll", index |-> index, ret |-> m.ret]

\* Menu::set_scroll(index)
CallMenuSetScroll(index) ==
    /\ pc = "event"
    /\ Scrolled(set_scroll(MenuState, index), index)
    /\ pre' = Snapshot(items, m_scroll, last_hovered, sel, num)
    /\ UNCHANGED navFrame

\* item_visible(index)
CallItemVisible(index) ==
    /\ pc = "event"
    /\ pc' = "event"
    /\ op' = [name |-> "item_visible", index |-> index,
              ret |-> item_visible(MenuState, index)]
    /\ pre' = Snapshot(items, m_scroll, last_hovered, sel, num)
    /\ UNCHANGED <<menuVars, uiVars, frameVars, mouseVars, int_overflow>>

\* UIMenu::get_item_region(index, &y1, &y2): ASSERT_RANGE ends the program on
\* an index that is not one of the entries.
CallGetItemRegion(index) ==
    /\ pc = "event"
    /\ pc' = IF in_range(MenuState, index) THEN "event" ELSE "crashed"
    /\ op' = [name |-> "get_item_region", index |-> index,
              ret |-> in_range(MenuState, index),
              region |-> IF in_range(MenuState, index) THEN item_region(index)
                         ELSE [y1 |-> -1, y2 |-> -1]]
    /\ pre' = Snapshot(items, m_scroll, last_hovered, sel, num)
    /\ UNCHANGED <<menuVars, uiVars, frameVars, mouseVars, int_overflow>>

\* The allocation that Scroller::set_scroll has queued is run.
Reallocate ==
    /\ pc = "event"
    /\ pc' = "layout"
    /\ op' = [name |-> "queued"]
    /\ UNCHANGED <<menuVars, uiVars, frameVars, mouseVars, int_overflow, pre>>

NavNext ==
    \/ Show(FALSE)
    \/ LayoutPass
    \/ AllocateRegion
    \/ \E y \in RowTops : ScrollToRow(y)
    \/ \E index \in PassedIndices : CallSnapInPage(index)
    \/ \E index \in PassedIndices : CallMenuSetScroll(index)
    \/ \E index \in PassedIndices : CallItemVisible(index)
    \/ \E index \in PassedIndices : CallGetItemRegion(index)
    \/ \E reverse \in BOOLEAN : CallCycleHover(reverse)
    \/ \E forward \in BOOLEAN : CallCycleHeaders(forward)
    \/ Reallocate

SpecNav == NavInit /\ [][NavNext]_vars

(***************************************************************************)
(* Claims on snapping and on the hover                                     *)
(***************************************************************************)
\* C14: of two successive snap_in_page(i) calls with nothing in between,
\* the second leaves the scroll offset the first one left, also when the
\* entry with the headings right before it is taller than the viewport.
C14_SnapIdempotent ==
    (op.name = "snap_in_page" /\ op.again) => m_scroll = pre.m_scroll

\* C15: the second of two successive snap_in_page(i) calls returns false.
C15_SecondSnapNoChange ==
    (op.name = "snap_in_page" /\ op.again) => ~op.ret

\* The Item-level entries of the list.
item_indices == {i \in Indices(items) : At(items, i).level = "MEL_ITEM"}
first_item == CHOOSE i \in item_indices : \A j \in item_indices : i <= j
last_item == CHOOSE i \in item_indices : \A j \in item_indices : i >= j

\* C16: in arrow mode a cycle_hover (forward or reverse, wrapping or not)
\* that changes the hover leaves it on an index of the list, on an
\* Item-level entry.
C16_HoverLandsOnItem ==
    (op.name = "cycle_hover" /\ is_set("MF_ARROWS_SELECT")
     /\ last_hovered # pre.last_hovered)
        => /\ last_hovered \in Indices(items)
           /\ At(items, last_hovered).level = "MEL_ITEM"

\* A reverse step from the first item goes round over the headings at both
\* ends of the list to the last item.
C16_Witness ==
    /\ op.name = "cycle_hover" /\ op.reverse
    /\ is_set("MF_ARROWS_SELECT") /\ is_set("MF_WRAP") /\ item_indices # {}
    /\ pre.last_hovered = first_item /\ first_item > 0
    /\ last_hovered = last_item /\ last_item < Size(items) - 1
    /\ last_hovered # pre.last_hovered

\* C17: in arrow mode without MF_WRAP a forward cycle_hover from the last
\* Item-level entry and a reverse one from the first leave the hover where
\* it is, and no cycle_hover leaves the hover past an end of the list.
C17_NoWrapStopsAtEnds ==
    (op.name = "cycle_hover" /\ is_set("MF_ARROWS_SELECT")
     /\ ~is_set("MF_WRAP") /\ item_indices # {})
        => /\ (~op.reverse /\ pre.last_hovered = last_item)
                => last_hovered = pre.last_hovered
           /\ (op.reverse /\ pre.last_hovered = first_item)
                => last_hovered = pre.last_hovered
           /\ last_hovered \in -1 .. (Size(items) - 1)

\* A forward step from the last item, with a heading after it.
C17_Witness ==
    /\ op.name = "cycle_hover" /\ ~op.reverse
    /\ is_set("MF_ARROWS_SELECT") /\ ~is_set("MF_WRAP")
    /\ item_indices # {} /\ pre.last_hovered = last_item
    /\ last_item < Size(items) - 1
    /\ last_hovered = last_item

(***************************************************************************)
(* The digits a player types before a hotkey                               *)
(***************************************************************************)
\* The digits typed: one that is a hotkey of NumberedMenu and one that is not.
DigitKeys == {Ch.zero + 1, Ch.zero + 9}

\* A menu whose first and last entries have the digit 1 as a hotkey.
NumberedMenu ==
    <<Item(3, <<Ch.zero + 1>>, "none", TRUE), Heading,
      Item(1, <<Hotkey(1), Ch.zero + 1>>, "none", TRUE)>>

DigitHosts ==
    {Host(NumberedMenu, {"MF_MULTISELECT"}, FALSE),
     Host(NumberedMenu, {"MF_SINGLESELECT"}, FALSE),
     Host(NumberedMenu, {"MF_MULTISELECT", "MF_ARROWS_SELECT", "MF_INIT_HOVER"},
          FALSE),
     Host(FruitMenu, {"MF_MULTISELECT", "MF_ANYPRINTABLE"}, FALSE),
     Host(FruitMenu, {"MF_SINGLESELECT", "MF_ARROWS_SELECT"}, FALSE),
     Host(NumberedMenu, {"MF_MULTISELECT", "MF_NO_SELECT_QTY"}, FALSE),
     Host(<<>>, {"MF_MULTISELECT"}, FALSE),
     Host(ActionMenu, {"MF_SINGLESELECT"}, FALSE),
     Host(ShortMenu, {"MF_NOSELECT"}, FALSE)}

DigitsInit ==
    \E host \in DigitHosts :
        \E on_single \in IF "MF_SINGLESELECT" \in host.flags
                         THEN {"none", "handled"} ELSE {"none"} :
            /\ Constructed(host.items, set_flags(host.flags), on_single,
                           host.filter, "CYCLE_NONE", ScreenWidth, ScreenHeight)
        /\ int_overflow = "wraps"
        /\ pc = "show"

\* The key handler of do_menu, with the menu before the key kept in `pre`.
TypeKey(k) ==
    /\ pc = "event"
    /\ Handled(process_key(MenuState, k, "empty"), "process_key", k)
    /\ pre' = Snapshot(items, m_scroll, last_hovered, sel, num)
    /\ UNCHANGED navFrame

DigitsNext ==
    \/ Show(FALSE)
    \/ LayoutPass
    \/ AllocateRegion
    \/ \E k \in DigitKeys : TypeKey(k)
    \/ \E k \in {Hotkey(0), Ch.dot, CK.MOUSE_B1, CK.MOUSE_CLICK} : TypeKey(k)

SpecDigits == DigitsInit /\ [][DigitsNext]_vars

C19_QuantityRange == num = -1 \/ num \in 0 .. MaxNum

\* A digit typed on a menu that takes quantity prefixes.
digit_typed ==
    /\ op.name = "process_key" /\ isadigit(op.key)
    /\ ~is_set("MF_NO_SELECT_QTY") /\ ~is_set("MF_NOSELECT")
digit_held == \E i \in Indices(pre.items) : is_hotkey_of(At(pre.items, i), op.key)
digits_after(n, key) ==
    IF n \in 0 .. MaxNum THEN n * 10 + (key - Ch.zero) ELSE key - Ch.zero

\* C20: a digit typed where quantity prefixes are allowed only updates the
\* quantity: the entries' selection, also of an entry that has the digit as
\* a hotkey, the hover and the scroll are as before, and the menu goes on.
C20_DigitOnlyAccumulates ==
    digit_typed
        => /\ items = pre.items /\ sel = pre.sel
           /\ last_hovered = pre.last_hovered
           /\ m_scroll = pre.m_scroll
           /\ op.ret

\* C20, amended: on a menu that has entries or MF_SHOW_EMPTY, a digit typed
\* where quantity prefixes are allowed runs no command; it is appended to
\* the quantity and recorded as lastch, and then handled as a hotkey: when
\* no entry has the digit among its hotkeys the entries' selection, the
\* hover and the scroll are as before, and the menu goes on unless it is a
\* single-select menu with exactly one entry selected.
C20_DigitThenHotkey ==
    (digit_typed /\ (Size(items) > 0 \/ is_set("MF_SHOW_EMPTY")))
        => /\ num = digits_after(pre.num, op.key)
           /\ lastch = op.key
           /\ menu_action = "ACT_EXAMINE"
           /\ ~digit_held
                => /\ items = pre.items /\ sel = pre.sel
                   /\ last_hovered = pre.last_hovered
                   /\ m_scroll = pre.m_scroll
                   /\ op.ret \/ (is_set("MF_SINGLESELECT") /\ Len(sel) = 1)

\* A second digit that no entry has as a hotkey, typed with an entry
\* selected: the quantity grows and nothing else changes.
C20_Witness ==
    /\ digit_typed /\ ~digit_held
    /\ Size(items) > 0 /\ sel # <<>>
    /\ pre.num \in 0 .. 9 /\ num = pre.num * 10 + (op.key - Ch.zero)
    /\ items = pre.items /\ op.ret

(***************************************************************************)
(* The scroll and the snap a host asks for before the menu is shown        *)
(***************************************************************************)
EarlyHosts ==
    {Host(PagedMenu, {"MF_MULTISELECT"}, FALSE),
     Host(NavMenu, {"MF_SINGLESELECT", "MF_ARROWS_SELECT", "MF_INIT_HOVER"}, FALSE),
     Host(FruitMenu, {"MF_MULTISELECT"}, FALSE)}

\* The popup has its height from the start, or none until it is resized.
EarlyInit ==
    \E host \in EarlyHosts, mh \in {0, ScreenHeight} :
        /\ Constructed(host.items, set_flags(host.flags), "none", host.filter,
                       "CYCLE_NONE", ScreenWidth, mh)
        /\ int_overflow = "wraps"
        /\ pc = "early"

\* What a request that ran to m leaves; `pre` keeps the request, the scroll
\* offset before it, and whether the popup has been resized since.
Requested(m, kind, index) ==
    /\ Assign(m)
    /\ pc' = "show"
    /\ op' = [name |-> kind, index |-> index, ret |-> m.ret]
    /\ pre' = [kind |-> kind, index |-> index, m_scroll |-> m_scroll,
               resized |-> FALSE]

\* Menu::set_scroll(index) before show
RequestScroll(index) ==
    /\ pc = "early"
    /\ Requested(set_scroll(MenuState, index), "menu_set_scroll", index)
    /\ UNCHANGED navFrame

\* Menu::snap_in_page(index) before show
RequestSnap(index) ==
    /\ pc = "early"
    /\ Requested(snap_in_page(MenuState, index), "snap_in_page", index)
    /\ UNCHANGED navFrame

\* The popup's get_max_child_size gets a height: the layout is run again.
Resize ==
    /\ pc = "event"
    /\ max_height = 0
    /\ max_height' = ScreenHeight
    /\ pc' = "layout"
    /\ op' = [name |-> "resize", ret |-> TRUE]
    /\ pre' = [pre EXCEPT !.resized = TRUE]
    /\ UNCHANGED <<menuVars, uiVars, m_scroll, vph, menu_w, max_size_height,
                   seen_hups, mouseVars, int_overflow>>

EarlyNext ==
    \/ \E index \in Indices(items) : RequestScroll(index)
    \/ \E index \in Indices(items) : RequestSnap(index)
    \/ Show(FALSE)
    \/ LayoutPass
    \/ AllocateRegion
    \/ Resize

SpecEarly == EarlyInit /\ [][EarlyNext]_vars

(***************************************************************************)
(* Claims on what a key leaves behind                                      *)
(***************************************************************************)
\* C21: after process_key has handled a key that is no digit and the menu
\* goes on, the quantity is -1 (unset).
C21_NonDigitResetsQuantity ==
    (op.name = "process_key" /\ ~isadigit(op.key) /\ op.ret /\ pc # "crashed")
        => num = -1

\* The key of the last call is a hotkey of an entry, and no entry was
\* selected before the call.
hotkey_typed_on_clean_menu ==
    /\ op.name = "process_key" /\ ~isadigit(op.key)
    /\ \E i \in Indices(pre.items) : is_hotkey_of(At(pre.items, i), op.key)
    /\ \A i \in Indices(pre.items) : ~selected(At(pre.items, i))

\* C22: under MF_SINGLESELECT, when a hotkey has selected one entry and the
\* entry's action (on_select, else on_single_selection) has reported
\* handled, so that the menu goes on, process_key returns with no entry
\* selected and with an empty selection list.
C22_HandledClearsSelection ==
    (hotkey_typed_on_clean_menu /\ is_set("MF_SINGLESELECT") /\ op.ret
     /\ pc # "crashed")
        => /\ \A i \in Indices(items) : ~selected(At(items, i))
           /\ sel = <<>>

\* C23: when the hang-up flag has been set while the menu was shown, the loop
\* of do_menu has ended and show returns an empty selection, also in a
\* multi-select menu in which keys had selected entries before.
C23_HangupReturnsEmpty ==
    (seen_hups /\ pc = "done") => sel = <<>>

\* A request of SpecEarly is on record, and the menu has come to rest with a
\* viewport.
request_made == pc # "early"
at_rest == pc = "event" /\ vph > 0

\* C24: a set_scroll or snap_in_page request for a valid index made with a
\* viewport height of 0 returns false and leaves the scroll offset; it is
\* replayed once a layout pass has given the viewport a height, after which
\* the entry asked for is in view, whatever the index and also when the
\* height was still 0 at the first allocation.
C24_RequestReplayed ==
    request_made
        => /\ (pc = "show" => ~op.ret /\ m_scroll = pre.m_scroll)
           /\ (at_rest => item_visible(MenuState, pre.index))

\* C24, amended: both requests return false and leave the scroll offset.
\* The index of a set_scroll request is kept in m_force_scroll until the
\* first allocation of the menu widget, which replays it once and forgets
\* it: with a viewport height at that allocation and no entry hovered, the
\* scroll offset comes to rest at the top of the entry's block of headings
\* less the shade margin, within the scrollable range; with a height of 0
\* at that allocation the request is lost.  A snap_in_page request is not
\* kept: with no entry hovered the scroll offset rests at 0.
C24_ScrollRequestKept ==
    request_made
        => /\ (pc = "show" => ~op.ret /\ m_scroll = pre.m_scroll)
           /\ (pre.kind = "menu_set_scroll" /\ ~m_initial_hover_snap
                => m_force_scroll = pre.index)
           /\ (pre.kind = "snap_in_page" \/ m_initial_hover_snap
                => m_force_scroll = -1)
           /\ (at_rest /\ last_hovered < 0 /\ pre.kind = "menu_set_scroll"
                /\ ~pre.resized
                => m_scroll
                   = Max(0, Min(block_top(MenuState, pre.index)
                                - UI_SCROLLER_SHADE_SIZE \div 2, m_height - vph)))
           /\ (at_rest /\ last_hovered < 0
                /\ (pre.kind = "snap_in_page" \/ pre.resized)
                => m_scroll = 0)

\* A set_scroll asked for before show has scrolled the menu to its entry.
C24_Witness ==
    /\ request_made /\ at_rest /\ pre.kind = "menu_set_scroll" /\ ~pre.resized
    /\ last_hovered < 0 /\ m_force_scroll = -1
    /\ m_scroll > 0 /\ item_visible(MenuState, pre.index)

\* C25: after every key that process_key has handled, the selection list is
\* the list of the entries whose selected() is true, in display order.
C25_SelectionDerived ==
    (op.name = "process_key" /\ pc # "crashed") => sel = get_selected(items)

(***************************************************************************)
(* Claims on the layout's purity and on paging                             *)
(***************************************************************************)
\* The layout a first do_layout(mw, num_columns) on the entries gives.
first_layout(mw, num_columns) ==
    do_layout(items, mw, num_columns, m_min_col_width, 0,
              "MF_NO_WRAP_ROWS" \in flags)

\* C26: do_layout is pure: whatever layout calls came before, a call with
\* the same entries, width and columns leaves what the first such call
\* leaves, in the entries' places, the row-height table, the content height,
\* the natural column width and the scroll context.
C26_LayoutPure ==
    op.name = "do_layout"
        => /\ item_info = first_layout(op.mw, op.num_columns).item_info
           /\ row_heights = first_layout(op.mw, op.num_columns).row_heights
           /\ m_height = first_layout(op.mw, op.num_columns).m_height
           /\ m_nat_column_width
                  = first_layout(op.mw, op.num_columns).m_nat_column_width
           /\ m_scroll_context
                  = first_layout(op.mw, op.num_columns).m_scroll_context

\* The Item-level entries a cycle_hover from the hover before the call can
\* land on: all others with MF_WRAP, else those further on in its direction.
landing_items ==
    {i \in item_indices :
        IF is_set("MF_WRAP") THEN i # pre.last_hovered
        ELSE IF op.reverse THEN i < pre.last_hovered
        ELSE i > pre.last_hovered}
no_headings == \A i \in Indices(items) : ~is_heading(At(items, i))
only_headings == \A i \in Indices(items) : is_heading(At(items, i))

\* C27: a cycle_hover with no entry to land on, and a cycle_headers on a
\* list of headings only or without headings, leave the hover and the
\* scroll offset as they were; cycle_headers returns false.
C27_ExhaustedIsNoOp ==
    /\ (op.name = "cycle_hover" /\ is_set("MF_ARROWS_SELECT")
        /\ landing_items = {})
            => /\ pc # "crashed"
               /\ last_hovered = pre.last_hovered
               /\ m_scroll = pre.m_scroll
    /\ (op.name = "cycle_headers" /\ (no_headings \/ only_headings))
            => /\ pc # "crashed"
               /\ ~op.ret
               /\ last_hovered = pre.last_hovered
               /\ m_scroll = pre.m_scroll

(***************************************************************************)
(* The pages a host turns                                                  *)
(***************************************************************************)
PageHosts ==
    {Host(PagedMenu, {"MF_MULTISELECT"}, FALSE),
     Host(NavMenu, {"MF_SINGLESELECT", "MF_ARROWS_SELECT"}, FALSE),
     Host(OddMenu, {"MF_MULTISELECT", "MF_ARROWS_SELECT", "MF_INIT_HOVER"}, FALSE),
     Host(<<>>, {"MF_MULTISELECT", "MF_SHOW_EMPTY"}, FALSE)}

PageInit ==
    \E host \in PageHosts, screens \in 1 .. NavScreens :
        /\ Constructed(host.items, set_flags(host.flags), "none", host.filter,
                       "CYCLE_NONE", ScreenWidth, screens * ScreenHeight)
        /\ int_overflow = "wraps"
        /\ pc = "show"

\* What page_down() or page_up() that ran to m leaves; the allocation that
\* Scroller::set_scroll has queued runs before the next call.
Paged(m, name) ==
    /\ Assign(m)
    /\ pc' = IF m.fault # "none" THEN "crashed" ELSE "layout"
    /\ op' = [name |-> name, ret |-> m.ret]

\* page_down()
CallPageDown ==
    /\ pc = "event"
    /\ Paged(page_down(MenuState), "page_down")
    /\ pre' = Snapshot(items, m_scroll, last_hovered, sel, num)
    /\ UNCHANGED navFrame

\* page_up()
CallPageUp ==
    /\ pc = "event"
    /\ Paged(page_up(MenuState), "page_up")
    /\ pre' = Snapshot(items, m_scroll, last_hovered, sel, num)
    /\ UNCHANGED navFrame

PageNext ==
    \/ Show(FALSE)
    \/ LayoutPass
    \/ AllocateRegion
    \/ \E y \in RowTops : ScrollToRow(y)
    \/ CallPageDown
    \/ CallPageUp

SpecPage == PageInit /\ [][PageNext]_vars

(***************************************************************************)
(* Claims on '.', on the click codes and on indices                        *)
(***************************************************************************)
\* C28: under MF_MULTISELECT with an entry hovered, the key '.' and the
\* click codes CK_MOUSE_B1 and CK_MOUSE_CLICK toggle the selection of the
\* hovered entry and of no other entry.
C28_DotAndClickToggleHover ==
    (op.name = "process_key" /\ op.key \in {Ch.dot, CK.MOUSE_B1, CK.MOUSE_CLICK}
     /\ is_set("MF_MULTISELECT") /\ pre.last_hovered >= 0 /\ pc # "crashed")
        => \A i \in Indices(items) :
               selected(At(items, i))
                   = IF i = pre.last_hovered THEN ~selected(At(pre.items, i))
                     ELSE selected(At(pre.items, i))

index_taking == {"snap_in_page", "menu_set_scroll", "item_visible", "get_item_region"}
outside_passed == op.name \in index_taking /\ ~in_range(MenuState, op.index)

\* C29: an index outside [0, entry count) passed to snap_in_page,
\* set_scroll, item_visible or get_item_region is a fatal assertion failure,
\* never a normal return.
C29_OutsideIsFatal ==
    outside_passed => pc = "crashed"

\* C29 as the code has it: snap_in_page, set_scroll and item_visible answer
\* false to an index outside [0, entry count) and leave the entries, the
\* scroll offset, the hover, the selection and the quantity as they were;
\* only get_item_region ends in a fatal assertion failure.
C29_OutsideToleratedButInRegion ==
    outside_passed =>
        IF op.name = "get_item_region" THEN pc = "crashed"
        ELSE /\ pc = "event"
             /\ ~op.ret
             /\ Snapshot(items, m_scroll, last_hovered, sel, num) = pre

\* set_scroll has been called on a shown menu with the index right after the
\* last entry, and has returned.
C29_Witness ==
    /\ op.name = "menu_set_scroll" /\ op.index = Size(items) /\ Size(items) > 0
    /\ vph > 0 /\ ~op.ret /\ pc = "event"

\* The menu as the call found it, and what the call saw of it.
menu_before == page_hover_start([MenuState EXCEPT !.m_scroll = pre.m_scroll,
                                                  !.last_hovered = pre.last_hovered])
last_was_in_page == in_page(menu_before, Size(items) - 1, TRUE)
hover_was_in_page == page_new_hover(menu_before) >= 0
paged_down == op.name = "page_down" /\ pc # "crashed" /\ ~last_was_in_page
paged_up == op.name = "page_up" /\ pc # "crashed"

\* C30: page_down, when the last entry is not fully visible, and page_up move
\* the scroll offset by exactly the viewport height less the scroll context,
\* down or up, the scroll context being the tallest row height that layout
\* has recorded.
C30_PageMovesByTallestRow ==
    /\ paged_down => m_scroll = pre.m_scroll + (vph - m_scroll_context)
    /\ paged_up => m_scroll = pre.m_scroll - (vph - m_scroll_context)

\* C30 as the code has it: with no hover in the page, the move is the
\* viewport height less one and a half times (rounded down) the tallest row
\* height that layout has recorded.
C30_PageMovesByContext ==
    LET dy == vph - (m_scroll_context + m_scroll_context \div 2)
    IN  /\ (paged_down /\ ~hover_was_in_page) => m_scroll = pre.m_scroll + dy
        /\ (paged_up /\ ~hover_was_in_page) => m_scroll = pre.m_scroll - dy

\* A page down and a page up that moved a menu without a hover in the page.
C30_Witness ==
    /\ paged_up /\ ~hover_was_in_page
    /\ pre.m_scroll > 0 /\ m_scroll < pre.m_scroll /\ m_scroll_context > 0

(***************************************************************************)
(* The keys a player moves with                                            *)
(***************************************************************************)
MoveKeys ==
    {CK.UP, CK.DOWN, CK.LINE_UP, CK.LINE_DOWN, CK.PGUP, CK.PGDN, CK.HOME,
     CK.END, CK.CYCLE_HEADERS}

MoveHosts ==
    {Host(NavMenu, {"MF_SINGLESELECT", "MF_ARROWS_SELECT"}, FALSE),
     Host(NavMenu, {"MF_MULTISELECT", "MF_ARROWS_SELECT", "MF_WRAP"}, FALSE),
     Host(PagedMenu, {"MF_MULTISELECT", "MF_ARROWS_SELECT", "MF_INIT_HOVER"}, FALSE),
     Host(OddMenu, {"MF_MULTISELECT"}, FALSE),
     Host(HeadingsOnly, {"MF_SINGLESELECT", "MF_ARROWS_SELECT"}, FALSE),
     Host(<<>>, {"MF_MULTISELECT", "MF_SHOW_EMPTY"}, FALSE),
     Host(<<>>, {"MF_SINGLESELECT", "MF_ARROWS_SELECT", "MF_SHOW_EMPTY"}, FALSE)}

MoveInit ==
    \E host \in MoveHosts :
        /\ Constructed(host.items, set_flags(host.flags), "none", host.filter,
                       "CYCLE_NONE", ScreenWidth, ScreenHeight)
        /\ int_overflow = "wraps"
        /\ pc = "show"

MoveNext ==
    \/ Show(FALSE)
    \/ LayoutPass
    \/ AllocateRegion
    \/ \E k \in MoveKeys : TypeKey(k)

SpecMove == MoveInit /\ [][MoveNext]_vars

(***************************************************************************)
(* Claims on what paging reports and on the visible range                  *)
(***************************************************************************)
\* C31: page_down returns false exactly when the viewport was already at
\* the bottom of the content (scroll offset + viewport height >= content
\* height), and page_up returns false exactly when the scroll offset was
\* already 0.
C31_PagingReportsEnds ==
    /\ (op.name = "page_down" /\ pc # "crashed")
            => (op.ret <=> pre.m_scroll + vph < m_height)
    /\ (op.name = "page_up" /\ pc # "crashed")
            => (op.ret <=> pre.m_scroll > 0)

\* The entries with a part of their row between scroll and scroll + height.
rows_in_view(scroll, height) ==
    {i \in Indices(item_info) :
        /\ row_bottom(item_info, row_heights, i) > scroll
        /\ row_top(item_info, row_heights, i) < scroll + height}

\* C32: for a laid-out menu, a scroll offset >= 0 and a viewport height > 0,
\* is_visible_item_range returns [min, max) with 0 <= min <= max <= entry
\* count that holds exactly the entries whose row ends below scroll and
\* starts above scroll + height; it is empty when no row reaches below the
\* scroll offset.
C32_VisibleRangeExact ==
    (laid_out /\ vph > 0 /\ m_scroll >= 0 /\ Size(item_info) = Size(items))
        => /\ 0 <= visible_range.vis_min
           /\ visible_range.vis_min <= visible_range.vis_max
           /\ visible_range.vis_max <= Size(items)
           /\ visible_range.vis_min .. (visible_range.vis_max - 1)
                  = rows_in_view(m_scroll, vph)

(***************************************************************************)
(* Claims on where a snap and a scroll put the viewport                    *)
(***************************************************************************)
\* The region of the entry a call was made for: from the top of the headings
\* right before it to the bottom of its row.
called_top == block_top(MenuState, op.index)
called_bottom == item_region(op.index).y2
snapped == op.name = "snap_in_page" /\ in_range(MenuState, op.index) /\ vph > 0
region_fits(margin) == called_bottom - called_top <= vph - margin

\* C33: snap_in_page(i) with a viewport height > 0 and a valid index leaves
\* the scroll offset and returns false if the entry's region lies inside
\* [scroll, scroll + height]; otherwise it changes the scroll offset by the
\* least amount that brings the region inside, for a region that is not
\* taller than the viewport.
C33_SnapLeastMove ==
    snapped =>
        IF pre.m_scroll <= called_top /\ called_bottom <= pre.m_scroll + vph
        THEN m_scroll = pre.m_scroll /\ ~op.ret
        ELSE region_fits(0) =>
                 m_scroll = IF called_bottom > pre.m_scroll + vph
                            THEN called_bottom - vph ELSE called_top

\* C33 as the code has it: the region is left alone (and false returned)
\* when it starts at or below the scroll offset and ends above scroll +
\* height; otherwise true is returned and the viewport's bottom is put half
\* a shade below the region's bottom or, for a region that ends in the
\* viewport, the viewport's top half a shade above the region's top; a
\* region that with that margin is not taller than the viewport then lies
\* inside [scroll, scroll + height].
C33_SnapWithShade ==
    snapped =>
        IF pre.m_scroll <= called_top /\ called_bottom < pre.m_scroll + vph
        THEN m_scroll = pre.m_scroll /\ ~op.ret
        ELSE /\ op.ret
             /\ m_scroll = IF called_bottom >= pre.m_scroll + vph
                            THEN called_bottom - vph + UI_SCROLLER_SHADE_SIZE \div 2
                            ELSE called_top - UI_SCROLLER_SHADE_SIZE \div 2
             /\ region_fits(UI_SCROLLER_SHADE_SIZE \div 2)
                    => m_scroll <= called_top /\ called_bottom <= m_scroll + vph

\* A snap that scrolled down to an entry below the viewport, and fits.
C33_Witness ==
    /\ snapped /\ op.ret /\ called_bottom > pre.m_scroll + vph
    /\ region_fits(UI_SCROLLER_SHADE_SIZE \div 2)
    /\ called_top # item_region(op.index).y1

\* C34: set_scroll(index) with a viewport height > 0 and a valid index puts
\* the top of the entry's region (the top of the headings right before it,
\* if any) exactly at the top of the viewport, whatever the scroll offset
\* was, and returns true exactly when the scroll offset changed.
C34_ScrollPutsRegionOnTop ==
    (op.name = "menu_set_scroll" /\ in_range(MenuState, op.index) /\ vph > 0)
        => /\ m_scroll = called_top
           /\ op.ret <=> m_scroll # pre.m_scroll

(***************************************************************************)
(* Claims on the walk over the header blocks                               *)
(***************************************************************************)
\* C35: cycle_headers terminates in both directions on every non-empty list
\* and from every hover or scroll position: the walk comes back to the block
\* it started from, and the call then returns false, unless it stops at a
\* heading before.
C35_CycleHeadersTerminates ==
    (op.name = "cycle_headers" /\ Size(items) > 0)
        => /\ op.fault # "hangs"
           /\ no_headings => ~op.ret

(***************************************************************************)
(* Claims on the natural column width and on the page height cap           *)
(***************************************************************************)
laid_min_width ==
    IF m_min_col_width > 0 THEN m_min_col_width ELSE DefaultMinColumnWidth
laid_max_width == op.mw \div op.num_columns

\* C36: the natural column width that do_layout computes lies between the
\* minimum column width and available width / number of columns, also when
\* the latter is the smaller of the two.
C36_NaturalWidthInRange ==
    op.name = "do_layout"
        => /\ m_nat_column_width >= laid_min_width
           /\ m_nat_column_width <= laid_max_width

\* C36 as the code has it: the natural column width is never below the
\* minimum column width; it is at most available width / number of columns
\* when that is no smaller than the minimum, and is the minimum otherwise.
C36_NaturalWidthMinWins ==
    op.name = "do_layout"
        => /\ m_nat_column_width >= laid_min_width
           /\ laid_max_width >= laid_min_width
                  => m_nat_column_width <= laid_max_width
           /\ laid_max_width < laid_min_width
                  => m_nat_column_width = laid_min_width

\* A layout in columns that are narrower than the minimum column width.
C36_Witness ==
    /\ op.name = "do_layout" /\ op.num_columns > 1 /\ Size(items) > 0
    /\ laid_max_width < laid_min_width
    /\ m_nat_column_width = laid_min_width

\* What the loop of get_max_viewport_height comes to on the layout at hand.
cap_loop == max_viewport_loop(items, item_info, row_heights)
cap_taken == laid_out /\ op.name = "viewport"

\* C37: get_max_viewport_height returns INT_MAX whenever the list has at most
\* 52 Item-level entries, wherever its headings are, and a finite height
\* only when it has more than 52.
C37_UnboundedUpToCap ==
    (cap_taken /\ cap_loop.status = "returned")
        => (max_size_height = INT_MAX <=> total_item_count <= HotkeyCap)

(***************************************************************************)
(* Layouts in more columns than a page has hotkeys                         *)
(***************************************************************************)
\* The numbers a host gives set_num_columns: one column, and one more than
\* the cap on the items of a page.
WideColumns == {1, HotkeyCap + 1}

\* get_max_viewport_height does not come back with a height: it spins, or
\* it has read item_info past its end, which ends the program or goes
\* unnoticed and leaves the height found so far.
CapFault(unnoticed) ==
    /\ laid_out
    /\ vph = 0
    /\ cap_loop.status # "returned"
    /\ unnoticed => cap_loop.status = "out_of_bounds"
    /\ pc' = IF unnoticed THEN pc ELSE "crashed"
    /\ vph' = IF unnoticed THEN CHOOSE h \in ViewportHeights : TRUE ELSE vph
    /\ max_size_height' = IF unnoticed THEN cap_loop.height ELSE max_size_height
    /\ op' = [name |-> "cap_fault", status |-> cap_loop.status]
    /\ UNCHANGED <<menuVars, uiVars, m_scroll, menu_w, max_height, seen_hups,
                   mouseVars, int_overflow, pre>>

WideNext ==
    \/ /\ pc = "call"
       /\ \E mw \in LayoutWidths, num_columns \in WideColumns :
              CallDoLayout(mw, num_columns)
    \/ /\ laid_out
       /\ vph = 0
       /\ pc = "call"
       /\ cap_loop.status = "returned"
       /\ \E h \in ViewportHeights \cup {cap_loop.height} :
              CallSetViewport(h, cap_loop.height)
    \/ /\ pc = "call"
       /\ \E unnoticed \in BOOLEAN : CapFault(unnoticed)

SpecWide == LayoutInit /\ [][WideNext]_vars

C39_NavigationKeepsIndices ==
    (op.name = "process_key" /\ op.key \in MoveKeys) => op.fault # "assert"

\* C40: in arrow mode, after every key on a menu that has entries, the hover
\* is -1 or the index of an Item-level entry; it never rests on a heading.
C40_HoverOnItemOrNone ==
    (is_set("MF_ARROWS_SELECT") /\ Size(items) > 0 /\ op.name = "process_key"
     /\ pc # "crashed")
        => \/ last_hovered = -1
           \/ /\ last_hovered \in Indices(items)
              /\ At(items, last_hovered).level = "MEL_ITEM"

====
